---- MODULE Spec2Model ----
(***************************************************************************)
(* A model of the code-generation backend of redstone_compiler:            *)
(* the instruction table and its 16-bit encoding, the symbolic machine     *)
(* state, the scope stack and variable arena, expression and statement     *)
(* lowering, the ram/screen/list intrinsics, and the jump-mark linker.     *)
(***************************************************************************)
EXTENDS Integers, Sequences, FiniteSets, TLC

VARIABLES
    overflow_checks, \* build profile: TRUE = integer overflow panics (debug), FALSE = wraps (release)
    task,            \* which entry point this run drives: "compile", "to_bin", "inline", "number"
    ast,             \* compile_program's input: the sequence of top-level statements
    next_stmt,       \* index of the next top-level statement generate_assembly lowers
    compiler,        \* the Compiler struct
    phase,           \* position in the pipeline
    instructions,    \* the flat instruction vector of get_instructions
    i,               \* insert_disc_jumps: the inner loop index
    changes,         \* insert_disc_jumps: the `changes` flag of the current pass
    passes,          \* insert_disc_jumps: number of completed passes of the outer loop
    before,          \* ghost: the compiler's arena, names, code and modules before the last lowered statement
    machine,         \* the concrete machine that runs the emitted instructions
    input,           \* argument of the pure function under test
    output           \* its result

vars == <<overflow_checks, task, ast, next_stmt, compiler, phase, instructions, i,
          changes, passes, before, machine, input, output>>

-----------------------------------------------------------------------------
(* 16-bit arithmetic *)

ToU16(x) == x % 65536

ToI16(x) == LET u == x % 65536 IN IF u >= 32768 THEN u - 65536 ELSE u

InI16(x) == x >= -32768 /\ x <= 32767

RECURSIVE BitOp(_, _, _, _)
BitOp(op, a, b, n) ==
    IF n = 0 THEN 0
    ELSE LET x == a % 2
             y == b % 2
             r == CASE op = "and" -> x * y
                    [] op = "or"  -> IF x + y > 0 THEN 1 ELSE 0
                    [] OTHER      -> (x + y) % 2
         IN r + 2 * BitOp(op, a \div 2, b \div 2, n - 1)

RECURSIVE Pow2(_)
Pow2(n) == IF n = 0 THEN 1 ELSE 2 * Pow2(n - 1)

\* truncating division of Rust's `/` on signed integers
TruncDiv(a, b) == IF a >= 0 THEN a \div b ELSE -((-a) \div b)

\* The exact (unbounded) result of an i16 operator of the source language;
\* the bitwise operators never leave the i16 range.
Exact(op, a, b) ==
    CASE op = "Plus"  -> a + b
      [] op = "Minus" -> a - b
      [] op = "Mult"  -> a * b
      [] op = "And"   -> ToI16(BitOp("and", ToU16(a), ToU16(b), 16))
      [] op = "Or"    -> ToI16(BitOp("or", ToU16(a), ToU16(b), 16))
      [] op = "Xor"   -> ToI16(BitOp("xor", ToU16(a), ToU16(b), 16))

\* Rust's `+ - * & | ^` on i16: the result, and whether the build panics.
ArithI16(op, a, b) ==
    LET x == Exact(op, a, b)
    IN [v |-> ToI16(x), panic |-> overflow_checks /\ ~InI16(x)]

\* Rust's `a << b` / `a >> b` on i16 with an i16 shift amount: a shift amount
\* outside 0..15 panics with overflow checks and is masked to 4 bits without.
ShiftI16(up, a, b) ==
    LET s == ToU16(b) % 16
        x == IF up THEN ToI16(a * Pow2(s))
             ELSE IF a >= 0 THEN a \div Pow2(s) ELSE -(((-a) + Pow2(s) - 1) \div Pow2(s))
    IN [v |-> x, panic |-> overflow_checks /\ (b < 0 \/ b > 15)]

\* i16::to_le_bytes
to_le_bytes(value) == <<ToU16(value) % 256, ToU16(value) \div 256>>

-----------------------------------------------------------------------------
(* The instruction table *)

\* <<disc_jump, jump, id, instant, alu, has_arg>>
InstructionVariant ==
    [ STOP |-> <<FALSE, FALSE, 0, FALSE, FALSE, FALSE>>,
      NON  |-> <<FALSE, FALSE, 0, TRUE, FALSE, FALSE>>,
      LA   |-> <<FALSE, FALSE, 1, TRUE, FALSE, TRUE>>,
      LB   |-> <<FALSE, FALSE, 2, TRUE, FALSE, TRUE>>,
      LC   |-> <<FALSE, FALSE, 3, TRUE, FALSE, TRUE>>,
      SVA  |-> <<FALSE, FALSE, 4, TRUE, FALSE, TRUE>>,
      LAL  |-> <<FALSE, FALSE, 5, TRUE, FALSE, TRUE>>,
      LAH  |-> <<FALSE, FALSE, 6, TRUE, FALSE, TRUE>>,
      LBL  |-> <<FALSE, FALSE, 7, TRUE, FALSE, TRUE>>,
      LBH  |-> <<FALSE, FALSE, 8, TRUE, FALSE, TRUE>>,
      LCL  |-> <<FALSE, FALSE, 9, TRUE, FALSE, TRUE>>,
      ADD  |-> <<FALSE, FALSE, 1, TRUE, TRUE, FALSE>>,
      SUB  |-> <<FALSE, FALSE, 2, TRUE, TRUE, FALSE>>,
      AND  |-> <<FALSE, FALSE, 3, TRUE, TRUE, FALSE>>,
      OR   |-> <<FALSE, FALSE, 4, TRUE, TRUE, FALSE>>,
      XOR  |-> <<FALSE, FALSE, 5, TRUE, TRUE, FALSE>>,
      SUP  |-> <<FALSE, FALSE, 6, FALSE, TRUE, TRUE>>,
      SDN  |-> <<FALSE, FALSE, 7, FALSE, TRUE, TRUE>>,
      MUL  |-> <<FALSE, FALSE, 8, FALSE, TRUE, FALSE>>,
      RW   |-> <<FALSE, FALSE, 255, TRUE, FALSE, FALSE>>,
      RR   |-> <<FALSE, FALSE, 255, TRUE, FALSE, FALSE>>,
      RC   |-> <<FALSE, FALSE, 255, FALSE, FALSE, FALSE>>,
      INB  |-> <<FALSE, FALSE, 255, FALSE, FALSE, FALSE>>,
      JMP  |-> <<FALSE, TRUE, 0, TRUE, TRUE, TRUE>>,
      JE   |-> <<FALSE, TRUE, 1, TRUE, TRUE, TRUE>>,
      JNE  |-> <<FALSE, TRUE, 2, TRUE, TRUE, TRUE>>,
      JG   |-> <<FALSE, TRUE, 3, TRUE, TRUE, TRUE>>,
      JGE  |-> <<FALSE, TRUE, 4, TRUE, TRUE, TRUE>>,
      JL   |-> <<FALSE, TRUE, 5, TRUE, TRUE, TRUE>>,
      JLE  |-> <<FALSE, TRUE, 6, TRUE, TRUE, TRUE>>,
      JMD  |-> <<TRUE, TRUE, 0, TRUE, TRUE, TRUE>>,
      JDE  |-> <<TRUE, TRUE, 1, TRUE, TRUE, TRUE>>,
      JDN  |-> <<TRUE, TRUE, 2, TRUE, TRUE, TRUE>>,
      JDG  |-> <<TRUE, TRUE, 3, TRUE, TRUE, TRUE>>,
      JDGE |-> <<TRUE, TRUE, 4, TRUE, TRUE, TRUE>>,
      JDL  |-> <<TRUE, TRUE, 5, TRUE, TRUE, TRUE>>,
      JDLE |-> <<TRUE, TRUE, 6, TRUE, TRUE, TRUE>>,
      SMP  |-> <<FALSE, TRUE, 0, TRUE, TRUE, TRUE>>,
      SE   |-> <<FALSE, TRUE, 1, TRUE, TRUE, TRUE>>,
      SNE  |-> <<FALSE, TRUE, 2, TRUE, TRUE, TRUE>>,
      SG   |-> <<FALSE, TRUE, 3, TRUE, TRUE, TRUE>>,
      SGE  |-> <<FALSE, TRUE, 4, TRUE, TRUE, TRUE>>,
      SL   |-> <<FALSE, TRUE, 5, TRUE, TRUE, TRUE>>,
      SLE  |-> <<FALSE, TRUE, 6, TRUE, TRUE, TRUE>>,
      SMD  |-> <<TRUE, TRUE, 0, TRUE, TRUE, TRUE>>,
      SDE  |-> <<TRUE, TRUE, 1, TRUE, TRUE, TRUE>>,
      SDNE |-> <<TRUE, TRUE, 2, TRUE, TRUE, TRUE>>,
      SDG  |-> <<TRUE, TRUE, 3, TRUE, TRUE, TRUE>>,
      SDGE |-> <<TRUE, TRUE, 4, TRUE, TRUE, TRUE>>,
      SDL  |-> <<TRUE, TRUE, 5, TRUE, TRUE, TRUE>>,
      SDLE |-> <<TRUE, TRUE, 6, TRUE, TRUE, TRUE>> ]

Variants == DOMAIN InstructionVariant

disc_jump(variant) == InstructionVariant[variant][1]
jump(variant)      == InstructionVariant[variant][2]
id(variant)        == InstructionVariant[variant][3]
instant(variant)   == InstructionVariant[variant][4]
has_arg(variant)   == InstructionVariant[variant][6]

is_jump(variant) == jump(variant)

\* Option<u8>::None of Instruction.arg
NoArg == -1

\* a promotion that leaves the jump near
to_disc_jump_still_near(variant) == variant

\* to_disc_jump: the far twin of a near jump, by id; "PANIC" where the code panics
to_disc_jump(variant) ==
    IF ~jump(variant) \/ disc_jump(variant) THEN "PANIC"
    ELSE CASE id(variant) = 0 -> "JMD"
           [] id(variant) = 1 -> "JDE"
           [] id(variant) = 2 -> "JDN"
           [] id(variant) = 3 -> "JDG"
           [] id(variant) = 4 -> "JDGE"
           [] id(variant) = 5 -> "JDL"
           [] id(variant) = 6 -> "JDLE"
           [] OTHER -> "PANIC"

from_op(op) ==
    CASE op = "EqualTo"   -> "JE"
      [] op = "NotEqual"  -> "JNE"
      [] op = "Greater"   -> "JG"
      [] op = "GreaterEq" -> "JGE"
      [] op = "Less"      -> "JL"
      [] op = "LessEq"    -> "JLE"

B2N(b) == IF b THEN 1 ELSE 0

\* u8 `|` of the four fields; `id << 1` drops the bit shifted out of the u8
to_byte(variant) ==
    BitOp("or",
          BitOp("or", B2N(jump(variant)) * 64, B2N(disc_jump(variant)) * 32, 8),
          BitOp("or", (id(variant) * 2) % 256, B2N(instant(variant)), 8),
          8)

to_bin(instr) ==
    BitOp("or", IF instr.arg = NoArg THEN 0 ELSE instr.arg, to_byte(instr.variant) * 256, 16)

\* Instruction::new; its assertion is checked by NewPanics
Instruction_new(variant, arg) == [variant |-> variant, arg |-> arg]

NewPanics(variant, arg) == has_arg(variant) # (arg # NoArg)

-----------------------------------------------------------------------------
(* The symbolic machine state *)

Variable(slot) == [k |-> "Variable", v |-> slot]
Number(value)  == [k |-> "Number", v |-> value]
Unknown        == [k |-> "Unknown", v |-> 0]
ThisOne(page)  == [k |-> "ThisOne", v |-> page]
PageUnknown    == [k |-> "Unknown", v |-> 0]

\* ComputerState::default(); `panic` records an arithmetic panic inside execute
ComputerState == [a |-> Unknown, b |-> Unknown, c |-> Unknown, ram_page |-> ThisOne(0),
                  panic |-> FALSE]

arg_or_0(instr) == IF instr.arg = NoArg THEN 0 ELSE instr.arg

\* LAH / LBH on a tracked register: value + (i16::from(arg) << 8)
LoadHigh(reg, arg) ==
    IF reg.k = "Number"
    THEN LET r == ArithI16("Plus", reg.v, ToI16(arg * 256))
         IN [reg |-> Number(r.v), panic |-> r.panic]
    ELSE [reg |-> Unknown, panic |-> FALSE]

AluTracked(variant, a, b) ==
    IF a.k = "Number" /\ b.k = "Number"
    THEN LET r == CASE variant = "ADD" -> ArithI16("Plus", a.v, b.v)
                    [] variant = "SUB" -> ArithI16("Minus", a.v, b.v)
                    [] variant = "AND" -> ArithI16("And", a.v, b.v)
                    [] variant = "OR"  -> ArithI16("Or", a.v, b.v)
                    [] variant = "XOR" -> ArithI16("Xor", a.v, b.v)
                    [] variant = "SUP" -> ShiftI16(TRUE, a.v, b.v)
                    [] variant = "SDN" -> ShiftI16(FALSE, a.v, b.v)
                    [] variant = "MUL" -> ArithI16("Mult", a.v, b.v)
         IN [reg |-> Number(r.v), panic |-> r.panic]
    ELSE [reg |-> Unknown, panic |-> FALSE]

\* Instruction::execute on the tracked state
execute(instr, on) ==
    LET v == instr.variant
        arg == arg_or_0(instr)
    IN CASE v \in {"LA", "SVA"} -> [on EXCEPT !.a = Variable(arg)]
         [] v = "LB"  -> [on EXCEPT !.b = Variable(arg)]
         [] v = "LAL" -> [on EXCEPT !.a = Number(arg)]
         [] v = "LAH" -> LET r == LoadHigh(on.a, arg)
                         IN [on EXCEPT !.a = r.reg, !.panic = r.panic]
         [] v = "LBL" -> [on EXCEPT !.b = Number(arg)]
         [] v = "LBH" -> LET r == LoadHigh(on.b, arg)
                         IN [on EXCEPT !.b = r.reg, !.panic = r.panic]
         [] v \in {"ADD", "SUB", "MUL", "AND", "OR", "XOR", "SUP", "SDN"} ->
                LET r == AluTracked(v, on.a, on.b)
                IN [on EXCEPT !.a = r.reg, !.panic = r.panic]
         [] v = "LCL" -> [on EXCEPT !.c = Number(arg)]
         [] v = "LC"  -> [on EXCEPT !.c = Variable(arg)]
         [] v = "RR"  -> [on EXCEPT !.a = Unknown]
         [] v = "INB" -> IF on.b.k = "Number"
                         THEN LET r == ArithI16("Plus", on.b.v, 1)
                              IN [on EXCEPT !.b = Number(r.v), !.panic = r.panic]
                         ELSE [on EXCEPT !.b = Unknown]
         [] v = "RC"  -> IF on.b.k = "Number"
                         THEN LET p == TruncDiv(on.b.v, 16)
                              IN [on EXCEPT !.ram_page =
                                      ThisOne(IF p >= 0 /\ p <= 255 THEN p ELSE 0)]
                         ELSE [on EXCEPT !.ram_page = PageUnknown]
         [] OTHER -> on


-----------------------------------------------------------------------------
(* The AST consumed by the backend *)

NumericLiteral(value) == [typ |-> "NumericLiteral", value |-> value]
Identifier(symbol) == [typ |-> "Identifier", symbol |-> symbol]
BinaryExpr(left, operator, right) ==
    [typ |-> "BinaryExpr", left |-> left, right |-> right, operator |-> operator]
EqExpr(left, operator, right) ==
    [typ |-> "EqExpr", left |-> left, right |-> right, operator |-> operator]
Assignment(symbol, value) == [typ |-> "Assignment", symbol |-> symbol, value |-> value]
InlineDeclaration(symbol, value) ==
    [typ |-> "InlineDeclaration", symbol |-> symbol, value |-> value]
Use(module) == [typ |-> "Use", module |-> module]
VarDeclaration(symbol) == [typ |-> "VarDeclaration", symbol |-> symbol]
Pass == [typ |-> "Pass"]
Debug == [typ |-> "Debug"]
EndlessLoop(body) == [typ |-> "EndlessLoop", body |-> body]
WhileLoop(condition, body) == [typ |-> "WhileLoop", condition |-> condition, body |-> body]
\* paths: a sequence of <<condition, body>>; alternate: <<>> for None, <<body>> for Some(body)
Conditional(condition, body, paths, alternate) ==
    [typ |-> "Conditional", condition |-> condition, body |-> body, paths |-> paths,
     alternate |-> alternate]
Member(object, property) == [typ |-> "Member", object |-> object, property |-> property]
Call(function, args) == [typ |-> "Call", function |-> function, args |-> args]

\* is_commutative without the exception for Minus
is_commutative_always(operator) == TRUE

is_commutative(operator) == operator # "Minus"

opposite(op) ==
    CASE op = "EqualTo"   -> "NotEqual"
      [] op = "NotEqual"  -> "EqualTo"
      [] op = "Greater"   -> "LessEq"
      [] op = "GreaterEq" -> "Less"
      [] op = "Less"      -> "GreaterEq"
      [] op = "LessEq"    -> "Greater"

\* a mirror that also negates: Greater becomes LessEq
turnaround_negating(op) == opposite(op)

turnaround(op) ==
    CASE op = "EqualTo"   -> "EqualTo"
      [] op = "NotEqual"  -> "NotEqual"
      [] op = "Greater"   -> "Less"
      [] op = "GreaterEq" -> "LessEq"
      [] op = "Less"      -> "Greater"
      [] op = "LessEq"    -> "GreaterEq"

-----------------------------------------------------------------------------
(* Scopes, the variable arena and the Compiler struct *)

VAR_SLOTS == 32

NoError == [typ |-> "none", arg |-> ""]

\* Instr::Code / Instr::Scope
Code(instr) == [k |-> "Code", instr |-> instr]
InstrScope(s) == [k |-> "Scope", scope |-> s]

\* Scope::with_state; the two maps are sets of <<name, value>> pairs
Scope_with_state(state) ==
    [state |-> state, variables |-> {}, inline_variables |-> {}, instructions |-> <<>>]

\* `bound` is a ghost: for every mark bound to the current position, the number of
\* instructions emitted so far in the whole program at that moment
Compiler_new ==
    [scopes |-> <<Scope_with_state(ComputerState)>>,
     modules |-> {},
     main_scope |-> <<>>,
     jump_marks |-> <<>>,
     variables |-> [s \in 0..(VAR_SLOTS - 1) |-> FALSE],
     module_state |-> {},
     bound |-> {},
     err |-> NoError]

Ok(c) == c.err.typ = "none"

Fail(c, typ, arg) == IF Ok(c) THEN [c EXCEPT !.err = [typ |-> typ, arg |-> arg]] ELSE c

\* a Rust panic (failed assertion, unwrap on None, todo!(), arithmetic overflow)
Panic(c) == Fail(c, "panic", "")

MapHas(m, key) == \E p \in m : p[1] = key
MapGet(m, key) == (CHOOSE p \in m : p[1] = key)[2]
MapInsert(m, key, value) == {p \in m : p[1] # key} \cup {<<key, value>>}

\* the sum of scope_len before its conversion to u8, taken over the two halves of
\* the vector so that the recursion stays shallow on long scopes
RECURSIVE scope_sum(_)
scope_sum(scope) ==
    IF scope = <<>> THEN 0
    ELSE IF Len(scope) = 1
    THEN (IF scope[1].k = "Code" THEN 1 ELSE scope_sum(scope[1].scope))
    ELSE scope_sum(SubSeq(scope, 1, Len(scope) \div 2))
         + scope_sum(SubSeq(scope, Len(scope) \div 2 + 1, Len(scope)))

\* scope_len returns a u8: a sum above 255 panics with overflow checks, wraps without
scope_len(scope) ==
    LET n == scope_sum(scope)
    IN [v |-> n % 256, panic |-> overflow_checks /\ n > 255]

last_scope(c) == c.scopes[Len(c.scopes)]

\* The compiler's methods call each other recursively; every call of one method by
\* another goes through Rec, which dispatches on the callee's name.
RECURSIVE Rec(_, _, _)
push_instr_(c, instr) == Rec("push_instr", c, <<instr>>)
instr_(c, variant, arg) == Rec("instr", c, <<variant, arg>>)
insert_var_(c, symbol) == Rec("insert_var", c, <<symbol>>)
insert_temp_var_(c) == Rec("insert_temp_var", c, <<>>)
insert_jump_mark_(c) == Rec("insert_jump_mark", c, <<>>)
bind_mark_(c, mark) == Rec("bind_mark", c, <<mark>>)
pop_scope_(c) == Rec("pop_scope", c, <<>>)
try_get_constant_(c, value) == Rec("try_get_constant", c, <<value>>)
put_a_number_(c, value) == Rec("put_a_number", c, <<value>>)
put_b_number_(c, value) == Rec("put_b_number", c, <<value>>)
put_into_b_(c, expr) == Rec("put_into_b", c, <<expr>>)
switch_(c) == Rec("switch", c, <<>>)
put_op_(c, operator) == Rec("put_op", c, <<operator>>)
load_b_var_unwrap_(c, symbol) == Rec("load_b_var_unwrap", c, <<symbol>>)
load_var_(c, variant, symbol) == Rec("load_var", c, <<variant, symbol>>)
put_into_a_(c, expr) == Rec("put_into_a", c, <<expr>>)
put_ab_(c, left, right, commutative) == Rec("put_ab", c, <<left, right, commutative>>)
eval_binary_expr_(c, left, right, operator) == Rec("eval_binary_expr", c, <<left, right, operator>>)
eval_assignment_(c, symbol, value) == Rec("eval_assignment", c, <<symbol, value>>)
put_address_(c, address) == Rec("put_address", c, <<address>>)
ram_copy_(c, args) == Rec("ram_copy", c, <<args>>)
ram_write_(c, args) == Rec("ram_write", c, <<args>>)
ram_read_(c, args) == Rec("ram_read", c, <<args>>)
ram_module_(c, method, args) == Rec("ram_module", c, <<method, args>>)
write_screenop_(c, op) == Rec("write_screenop", c, <<op>>)
put_xy_(c, upper, lower, offset) == Rec("put_xy", c, <<upper, lower, offset>>)
write_screenpos_(c, x, y) == Rec("write_screenpos", c, <<x, y>>)
pixel_operation_(c, args, op) == Rec("pixel_operation", c, <<args, op>>)
screen_operation_(c, args, op) == Rec("screen_operation", c, <<args, op>>)
whole_pixel_operation_(c, args, op) == Rec("whole_pixel_operation", c, <<args, op>>)
screen_module_(c, method, args) == Rec("screen_module", c, <<method, args>>)
list_init_(c) == Rec("list_init", c, <<>>)
list_add_(c, args) == Rec("list_add", c, <<args>>)
list_pop_(c, args) == Rec("list_pop", c, <<args>>)
list_get_pointer_(c, args) == Rec("list_get_pointer", c, <<args>>)
list_set_pointer_(c, args) == Rec("list_set_pointer", c, <<args>>)
list_last_(c, args) == Rec("list_last", c, <<args>>)
list_at_(c, args) == Rec("list_at", c, <<args>>)
list_module_(c, method, args) == Rec("list_module", c, <<method, args>>)
io_slot_(c, expr, what) == Rec("io_slot", c, <<expr, what>>)
io_read_(c, args) == Rec("io_read", c, <<args>>)
io_write_(c, args) == Rec("io_write", c, <<args>>)
io_module_(c, method, args) == Rec("io_module", c, <<method, args>>)
call_(module, c, method, args) == Rec("call", c, <<module, method, args>>)
init_(module, c) == Rec("init", c, <<module>>)
eval_call_(c, function, args) == Rec("eval_call", c, <<function, args>>)
eval_expr_(c, expr) == Rec("eval_expr", c, <<expr>>)
eval_body_(c, body) == Rec("eval_body", c, <<body>>)
push_scope_(c, body, state) == Rec("push_scope", c, <<body, state>>)
put_comparison_(c, left, right, operator, jump_to) == Rec("put_comparison", c, <<left, right, operator, jump_to>>)
eval_paths_(c, paths, index, has_alternate, end_id) == Rec("eval_paths", c, <<paths, index, has_alternate, end_id>>)
eval_conditional_(c, condition, body, paths, alternate) == Rec("eval_conditional", c, <<condition, body, paths, alternate>>)
eval_statement_(c, line) == Rec("eval_statement", c, <<line>>)

RECURSIVE LookupFrom(_, _, _, _)
LookupFrom(c, field, symbol, n) ==
    IF n = 0 THEN [found |-> FALSE, v |-> 0]
    ELSE LET m == IF field = "inline" THEN c.scopes[n].inline_variables
                  ELSE c.scopes[n].variables
         IN IF MapHas(m, symbol) THEN [found |-> TRUE, v |-> MapGet(m, symbol)]
            ELSE LookupFrom(c, field, symbol, n - 1)

get_inline_var(c, symbol) == LookupFrom(c, "inline", symbol, Len(c.scopes))

get_var_noerror(c, symbol) == LookupFrom(c, "vars", symbol, Len(c.scopes))

insert_inline_var(c, symbol, value) ==
    [c EXCEPT !.scopes[Len(c.scopes)].inline_variables = MapInsert(@, symbol, value)]

FreeSlots(c) == {s \in 0..(VAR_SLOTS - 1) : ~c.variables[s]}

\* claims the highest free slot
get_next_available_slot_highest(c) ==
    IF FreeSlots(c) = {} THEN [c |-> c, found |-> FALSE, v |-> 0]
    ELSE LET index == CHOOSE s \in FreeSlots(c) : \A t \in FreeSlots(c) : s >= t
         IN [c |-> [c EXCEPT !.variables[index] = TRUE], found |-> TRUE, v |-> index]

\* claims the lowest free slot; found = FALSE when the arena is full
get_next_available_slot(c) ==
    IF FreeSlots(c) = {} THEN [c |-> c, found |-> FALSE, v |-> 0]
    ELSE LET index == CHOOSE s \in FreeSlots(c) : \A t \in FreeSlots(c) : s <= t
         IN [c |-> [c EXCEPT !.variables[index] = TRUE], found |-> TRUE, v |-> index]

insert_var(c, symbol) ==
    LET e == get_var_noerror(c, symbol)
    IN IF e.found THEN [c |-> c, v |-> e.v]
       ELSE LET r == get_next_available_slot(c)
            IN IF ~r.found THEN [c |-> Fail(c, "TooManyVars", ""), v |-> 0]
               ELSE [c |-> [r.c EXCEPT !.scopes[Len(c.scopes)].variables =
                                           MapInsert(@, symbol, r.v)],
                     v |-> r.v]

insert_temp_var(c) ==
    LET r == get_next_available_slot(c)
    IN IF ~r.found THEN [c |-> Fail(c, "TooManyVars", ""), v |-> 0]
       ELSE [c |-> r.c, v |-> r.v]

cleanup_temp_var(c, index) == [c EXCEPT !.variables[index] = FALSE]

push_instr(c, instr) ==
    LET n == Len(c.scopes)
        st == execute(instr, c.scopes[n].state)
    IN IF st.panic THEN Panic(c)
       ELSE [c EXCEPT !.scopes[n].state = st,
                      !.scopes[n].instructions = Append(@, Code(instr))]

\* the instr! macro: Instruction::new (with its assertion), then push_instr
instr(c, variant, arg) ==
    IF ~Ok(c) THEN c
    ELSE IF NewPanics(variant, arg) THEN Panic(c)
    ELSE push_instr_(c, Instruction_new(variant, arg))

\* a test that takes the first level of nesting for the root as well
is_root_scope_shallow(c) == Len(c.scopes) <= 2

is_root_scope(c) == Len(c.scopes) = 1

\* HashMap<u8, u8>::insert on the mark table, kept as a sequence indexed by id + 1
mark_insert(jump_marks, mark, value) ==
    IF mark + 1 <= Len(jump_marks) THEN [jump_marks EXCEPT ![mark + 1] = value]
    ELSE Append(jump_marks, value)

insert_jump_mark(c) ==
    LET mark == Len(c.jump_marks) % 256
    IN [c |-> [c EXCEPT !.jump_marks = mark_insert(@, mark, 0)], v |-> mark]

RECURSIVE EmittedIn(_, _)
EmittedIn(c, n) ==
    IF n = 0 THEN 0 ELSE scope_sum(c.scopes[n].instructions) + EmittedIn(c, n - 1)

\* the instructions emitted so far: those of the root scope and of every open scope
TotalEmitted(c) == EmittedIn(c, Len(c.scopes))

\* jump_marks.insert(id, scope_len(root instructions))
bind_mark(c, mark) ==
    IF ~Ok(c) THEN c
    ELSE LET n == scope_len(c.scopes[1].instructions)
         IN IF n.panic THEN Panic(c)
            ELSE [c EXCEPT !.jump_marks = mark_insert(@, mark, n.v),
                           !.bound = MapInsert(@, mark, TotalEmitted(c))]

\* leaves a scope without freeing the slots of its variables
pop_scope_keeping_slots(c) ==
    IF ~Ok(c) THEN c
    ELSE LET n == Len(c.scopes)
         IN [c EXCEPT !.scopes = [SubSeq(c.scopes, 1, n - 1) EXCEPT
                                     ![n - 1].instructions =
                                         Append(@, InstrScope(c.scopes[n].instructions))]]

pop_scope(c) ==
    IF ~Ok(c) THEN c
    ELSE LET n == Len(c.scopes)
             scope == c.scopes[n]
             freed == {p[2] : p \in scope.variables}
         IN [c EXCEPT !.scopes = [SubSeq(c.scopes, 1, n - 1) EXCEPT
                                     ![n - 1].instructions =
                                         Append(@, InstrScope(scope.instructions))],
                      !.variables = [s \in 0..(VAR_SLOTS - 1) |->
                                        IF s \in freed THEN FALSE ELSE c.variables[s]]]

-----------------------------------------------------------------------------
(* Expression lowering *)

RECURSIVE eval_after_inline(_, _)
eval_after_inline(c, expr) ==
    CASE expr.typ = "Identifier" ->
            LET r == get_inline_var(c, expr.symbol)
            IN IF r.found THEN [err |-> "none", v |-> r.v]
               ELSE [err |-> "NonexistentInlineVar", v |-> 0]
      [] expr.typ = "BinaryExpr" ->
            LET l == eval_after_inline(c, expr.left)
            IN IF l.err # "none" THEN l
               ELSE LET r == eval_after_inline(c, expr.right)
                    IN IF r.err # "none" THEN r
                       ELSE LET x == ArithI16(expr.operator, l.v, r.v)
                            IN IF x.panic THEN [err |-> "panic", v |-> 0]
                               ELSE [err |-> "none", v |-> x.v]
      [] expr.typ = "NumericLiteral" -> [err |-> "none", v |-> expr.value]
      [] OTHER -> [err |-> "ForbiddenInline", v |-> 0]

\* Some(v) / None, and a panic of the inline evaluator passed on
try_get_constant(c, value) ==
    CASE value.typ = "NumericLiteral" -> [some |-> TRUE, v |-> value.value, panic |-> FALSE]
      [] value.typ = "Identifier" ->
            LET r == get_inline_var(c, value.symbol)
            IN [some |-> r.found, v |-> r.v, panic |-> FALSE]
      [] value.typ = "BinaryExpr" ->
            LET r == eval_after_inline(c, value)
            IN [some |-> r.err = "none", v |-> r.v, panic |-> r.err = "panic"]
      [] OTHER -> [some |-> FALSE, v |-> 0, panic |-> FALSE]

RECURSIVE can_put_into_a(_)
can_put_into_a(expr) ==
    CASE expr.typ \in {"NumericLiteral", "Identifier"} -> TRUE
      [] expr.typ = "Assignment" -> can_put_into_a(expr.value)
      [] OTHER -> FALSE

can_put_into_b(expr) == expr.typ \in {"NumericLiteral", "Identifier"}

\* a loader that writes both bytes whatever the high byte is
put_a_number_both_bytes(c, value) ==
    IF ~Ok(c) THEN c
    ELSE IF last_scope(c).state.a = Number(value) THEN c
    ELSE LET bytes == to_le_bytes(value)
         IN instr_(instr_(c, "LAL", bytes[1]), "LAH", bytes[2])

put_a_number(c, value) ==
    IF ~Ok(c) THEN c
    ELSE IF last_scope(c).state.a = Number(value) THEN c
    ELSE LET bytes == to_le_bytes(value)
             c1 == instr_(c, "LAL", bytes[1])
         IN IF bytes[2] # 0 THEN instr_(c1, "LAH", bytes[2]) ELSE c1

put_b_number(c, value) ==
    IF ~Ok(c) THEN c
    ELSE IF last_scope(c).state.b = Number(value) THEN c
    ELSE LET bytes == to_le_bytes(value)
             c1 == instr_(c, "LBL", bytes[1])
         IN IF bytes[2] # 0 THEN instr_(c1, "LBH", bytes[2]) ELSE c1

put_into_b(c, expr) ==
    IF ~Ok(c) THEN c
    ELSE CASE expr.typ = "NumericLiteral" -> put_b_number_(c, expr.value)
           [] expr.typ = "Identifier" ->
                LET inl == get_inline_var(c, expr.symbol)
                    var == get_var_noerror(c, expr.symbol)
                IN IF inl.found THEN put_b_number_(c, inl.v)
                   ELSE IF ~var.found THEN Fail(c, "NonexistentVar", expr.symbol)
                   ELSE IF last_scope(c).state.b = Variable(var.v) THEN c
                   ELSE instr_(c, "LB", var.v)
           [] OTHER -> Fail(c, "SomethingElseWentWrong", "put_b called on wrong expression")

is_in_a(c, expr) ==
    CASE expr.typ = "NumericLiteral" -> last_scope(c).state.a = Number(expr.value)
      [] expr.typ = "Identifier" ->
            LET var == get_var_noerror(c, expr.symbol)
            IN var.found /\ Variable(var.v) = last_scope(c).state.a
      [] OTHER -> FALSE

is_in_b(c, expr) ==
    CASE expr.typ = "NumericLiteral" -> last_scope(c).state.b = Number(expr.value)
      [] expr.typ = "Identifier" ->
            LET var == get_var_noerror(c, expr.symbol)
            IN var.found /\ Variable(var.v) = last_scope(c).state.b
      [] OTHER -> FALSE

\* puts a into b through a fresh temporary
switch(c) ==
    IF ~Ok(c) THEN c
    ELSE LET t == insert_temp_var_(c)
         IN IF ~Ok(t.c) THEN t.c
            ELSE LET c1 == instr_(t.c, "SVA", t.v)
                     c2 == instr_(c1, "LB", t.v)
                 IN IF Ok(c2) THEN cleanup_temp_var(c2, t.v) ELSE c2

put_op(c, operator) ==
    CASE operator = "Plus"  -> instr_(c, "ADD", NoArg)
      [] operator = "Minus" -> instr_(c, "SUB", NoArg)
      [] operator = "Mult"  -> instr_(c, "MUL", NoArg)
      [] operator = "And"   -> instr_(c, "AND", NoArg)
      [] operator = "Or"    -> instr_(c, "OR", NoArg)
      [] operator = "Xor"   -> instr_(c, "XOR", NoArg)

\* instr!(self, LB, self.get_var(symbol).unwrap())
load_b_var_unwrap(c, symbol) ==
    IF ~Ok(c) THEN c
    ELSE LET var == get_var_noerror(c, symbol)
         IN IF var.found THEN instr_(c, "LB", var.v) ELSE Panic(c)

\* instr!(compiler, LB / LA, compiler.get_var(symbol)?)
load_var(c, variant, symbol) ==
    IF ~Ok(c) THEN c
    ELSE LET var == get_var_noerror(c, symbol)
         IN IF var.found THEN instr_(c, variant, var.v)
            ELSE Fail(c, "NonexistentVar", symbol)



put_into_a(c, expr) ==
    IF ~Ok(c) THEN c
    ELSE CASE expr.typ = "NumericLiteral" -> put_a_number_(c, expr.value)
           [] expr.typ = "Identifier" ->
                LET inl == get_inline_var(c, expr.symbol)
                    var == get_var_noerror(c, expr.symbol)
                IN IF inl.found THEN put_a_number_(c, inl.v)
                   ELSE IF ~var.found THEN Fail(c, "NonexistentVar", expr.symbol)
                   ELSE IF last_scope(c).state.a = Variable(var.v) THEN c
                   ELSE instr_(c, "LA", var.v)
           [] expr.typ = "Assignment" ->
                IF can_put_into_a(expr) THEN eval_expr_(c, expr)
                ELSE Fail(c, "SomethingElseWentWrong", "put_a")
           [] OTHER -> Fail(c, "SomethingElseWentWrong", "put_a called on wrong expression")

\* returns the compiler and whether the arguments were swapped
put_ab(c, left, right, commutative) ==
    IF ~Ok(c) THEN [c |-> c, swapped |-> FALSE]
    ELSE LET pa == can_put_into_a(left)
             pb == can_put_into_b(right)
         IN CASE pa /\ pb ->
                   IF commutative
                      /\ ((is_in_a(c, right) \/ is_in_b(c, left))
                          \/ (right.typ = "Identifier" /\ left.typ = "NumericLiteral"))
                   THEN [c |-> put_into_b_(put_into_a_(c, right), left), swapped |-> TRUE]
                   ELSE [c |-> put_into_b_(put_into_a_(c, left), right), swapped |-> FALSE]
              [] pa /\ ~pb ->
                   LET c1 == eval_expr_(c, right)
                   IN IF commutative /\ can_put_into_b(left)
                      THEN [c |-> put_into_b_(c1, left), swapped |-> TRUE]
                      ELSE LET c2 == IF right.typ = "Assignment"
                                     THEN load_b_var_unwrap_(c1, right.symbol)
                                     ELSE switch_(c1)
                           IN [c |-> put_into_a_(c2, left), swapped |-> FALSE]
              [] ~pa /\ pb ->
                   [c |-> put_into_b_(eval_expr_(c, left), right), swapped |-> FALSE]
              [] OTHER ->
                   LET c1 == eval_expr_(c, right)
                   IN IF right.typ = "Assignment"
                      THEN [c |-> load_b_var_unwrap_(eval_expr_(c1, left), right.symbol),
                            swapped |-> FALSE]
                      ELSE LET t == insert_temp_var_(c1)
                           IN IF ~Ok(c1) \/ ~Ok(t.c)
                              THEN [c |-> IF Ok(c1) THEN t.c ELSE c1, swapped |-> FALSE]
                              ELSE LET c2 == instr_(t.c, "SVA", t.v)
                                       c3 == eval_expr_(c2, left)
                                       c4 == instr_(c3, "LB", t.v)
                                   IN [c |-> IF Ok(c4) THEN cleanup_temp_var(c4, t.v) ELSE c4,
                                       swapped |-> FALSE]

eval_binary_expr(c, left, right, operator) ==
    LET r == put_ab_(c, left, right, is_commutative(operator))
    IN IF Ok(r.c) THEN put_op_(r.c, operator) ELSE r.c

eval_assignment(c, symbol, value) ==
    LET s == insert_var_(c, symbol)
    IN IF ~Ok(s.c) THEN s.c
       ELSE instr_(eval_expr_(s.c, value), "SVA", s.v)

-----------------------------------------------------------------------------
(* Module intrinsics *)

\* the modules registered in MODULES
Modules == {"io", "screen", "ram", "list"}

exist(module) == module \in Modules

\* arg_parse with Arg::Number descriptors only: the argument count must match
arg_parse(c, count, args) ==
    IF ~Ok(c) THEN c
    ELSE IF Len(args) # count THEN Fail(c, "InvalidArgs", "Wrong number of Arguments")
    ELSE c

\* (value / 16) as u8
page_of(value) == TruncDiv(value, 16) % 256

\* ram: puts the address in the B register and calls RC if necessary
put_address(c, address) ==
    IF ~Ok(c) THEN c
    ELSE LET k == try_get_constant_(c, address)
         IN IF k.panic THEN Panic(c)
            ELSE IF k.some
            THEN LET c1 == IF last_scope(c).state.ram_page # ThisOne(page_of(k.v))
                           THEN instr_(c, "RC", NoArg) ELSE c
                 IN put_b_number_(c1, k.v)
            ELSE LET c1 == instr_(c, "RC", NoArg)
                 IN IF can_put_into_b(address) THEN put_into_b_(c1, address)
                    ELSE IF can_put_into_a(address)
                    THEN LET c2 == put_into_a_(c1, address)
                         IN IF address.typ = "Assignment"
                            THEN load_var_(c2, "LB", address.symbol) ELSE c2
                    ELSE switch_(eval_expr_(c1, address))

ram_copy(c, args) ==
    LET c0 == arg_parse(c, 2, args)
    IN IF ~Ok(c0) THEN c0
       ELSE LET from == args[1]
                to == args[2]
                c1 == instr_(put_address_(c0, from), "RR", NoArg)
            IN IF ~Ok(c1) THEN c1
               ELSE IF can_put_into_b(to) THEN instr_(put_address_(c1, to), "RW", NoArg)
               ELSE LET t == insert_temp_var_(c1)
                    IN IF ~Ok(t.c) THEN t.c
                       ELSE LET c2 == instr_(t.c, "SVA", t.v)
                                c3 == put_address_(c2, to)
                                c4 == instr_(c3, "LA", t.v)
                            IN instr_(c4, "RW", NoArg)

ram_write(c, args) ==
    LET c0 == arg_parse(c, 2, args)
    IN IF ~Ok(c0) THEN c0
       ELSE LET value == args[1]
                address == args[2]
                c1 == IF can_put_into_a(value)
                      THEN put_into_a_(put_address_(c0, address), value)
                      ELSE IF can_put_into_b(address)
                      THEN put_address_(eval_expr_(c0, value), address)
                      ELSE LET e == eval_expr_(c0, value)
                           IN IF ~Ok(e) THEN e
                              ELSE IF value.typ = "Assignment"
                              THEN load_var_(put_address_(e, address), "LA", value.symbol)
                              ELSE LET t == insert_temp_var_(e)
                                   IN IF ~Ok(t.c) THEN t.c
                                      ELSE LET c2 == instr_(t.c, "SVA", t.v)
                                               c3 == put_address_(c2, address)
                                               c4 == instr_(c3, "LA", t.v)
                                           IN IF Ok(c4) THEN cleanup_temp_var(c4, t.v)
                                              ELSE c4
            IN instr_(c1, "RW", NoArg)

ram_read(c, args) ==
    LET c0 == arg_parse(c, 1, args)
    IN IF ~Ok(c0) THEN c0
       ELSE instr_(put_address_(c0, args[1]), "RR", NoArg)

ram_module(c, method, args) ==
    CASE method = "read"  -> ram_read_(c, args)
      [] method = "write" -> ram_write_(c, args)
      [] method = "copy"  -> ram_copy_(c, args)
      [] OTHER -> Fail(c, "UnknownMethod", method)

BASE_OUT_REG == 32
SCREENOP_REG == BASE_OUT_REG + 6
SCREENPOS_REG == BASE_OUT_REG + 7

write_screenop(c, op) == instr_(instr_(c, "LAL", op), "SVA", SCREENOP_REG)

\* `upper << offset` on an i16 with a u8 offset below 16: the bits shifted out are dropped
shl_i16(value, offset) == ToI16(value * Pow2(offset))

put_xy(c, upper, lower, offset) ==
    IF ~Ok(c) THEN c
    ELSE LET u == try_get_constant_(c, upper)
             l == try_get_constant_(c, lower)
         IN IF u.panic \/ l.panic THEN Panic(c)
            ELSE CASE u.some /\ l.some ->
                        put_a_number_(c, Exact("Or", shl_i16(u.v, offset), l.v))
                   [] u.some /\ ~l.some ->
                        instr_(put_b_number_(eval_expr_(c, lower), shl_i16(u.v, offset)),
                              "OR", NoArg)
                   [] ~u.some /\ l.some ->
                        instr_(put_b_number_(instr_(eval_expr_(c, upper), "SUP", offset), l.v),
                              "OR", NoArg)
                   [] OTHER ->
                        IF can_put_into_b(lower)
                        THEN instr_(put_into_b_(instr_(eval_expr_(c, upper), "SUP", offset),
                                              lower),
                                   "OR", NoArg)
                        ELSE LET t == insert_temp_var_(c)
                             IN IF ~Ok(t.c) THEN t.c
                                ELSE LET c1 == eval_expr_(t.c, lower)
                                         c2 == instr_(c1, "SVA", t.v)
                                         c3 == eval_expr_(c2, upper)
                                         c4 == instr_(c3, "SUP", offset)
                                         c5 == instr_(c4, "LB", t.v)
                                     IN IF Ok(c5)
                                        THEN instr_(cleanup_temp_var(c5, t.v), "OR", NoArg)
                                        ELSE c5

write_screenpos(c, x, y) == instr_(put_xy_(c, x, y, 8), "SVA", SCREENPOS_REG)

pixel_operation(c, args, op) ==
    LET c0 == arg_parse(c, 2, args)
    IN IF ~Ok(c0) THEN c0
       ELSE write_screenop_(write_screenpos_(c0, args[1], args[2]), op)

screen_operation(c, args, op) ==
    LET c0 == arg_parse(c, 0, args)
    IN IF ~Ok(c0) THEN c0 ELSE write_screenop_(c0, op)

whole_pixel_operation(c, args, op) ==
    LET c0 == arg_parse(c, 1, args)
    IN IF ~Ok(c0) THEN c0
       ELSE write_screenop_(instr_(eval_expr_(c0, args[1]), "SVA", SCREENPOS_REG), op)

screen_module(c, method, args) ==
    CASE method = "flip"      -> screen_operation_(c, args, 1)
      [] method = "clear"     -> screen_operation_(c, args, 2)
      [] method = "set_at"    -> pixel_operation_(c, args, 4)
      [] method = "invert_at" -> pixel_operation_(c, args, 8)
      [] method = "off_at"    -> pixel_operation_(c, args, 16)
      [] method = "set"       -> whole_pixel_operation_(c, args, 4)
      [] method = "invert"    -> whole_pixel_operation_(c, args, 8)
      [] method = "off"       -> whole_pixel_operation_(c, args, 16)
      [] OTHER -> Fail(c, "UnknownMethod", method)

\* list: the keys of module_state
INIT == "list_init"
POINTER == "list_ptr"

is_initialized(c) == MapHas(c.module_state, INIT) /\ MapGet(c.module_state, INIT) = TRUE

\* slots.iter().rev().position(|slot| !*slot): the position counts from the top of
\* the arena, so a free slot 31 yields 0
find_pointer_var_slot(slots) ==
    LET free == {p \in 0..(VAR_SLOTS - 1) : ~slots[VAR_SLOTS - 1 - p]}
    IN IF free = {} THEN [found |-> FALSE, v |-> 0]
       ELSE [found |-> TRUE, v |-> CHOOSE p \in free : \A q \in free : p <= q]

\* an init that stores the pointer slot and leaves the INIT flag unset
list_init_unflagged(c) ==
    IF ~Ok(c) THEN c
    ELSE IF is_initialized(c) THEN Fail(c, "ModuleInitTwice", "list")
    ELSE LET r == find_pointer_var_slot(c.variables)
         IN IF ~r.found THEN Fail(c, "TooManyVars", "")
            ELSE [c EXCEPT !.module_state = MapInsert(@, POINTER, r.v)]

list_init(c) ==
    IF ~Ok(c) THEN c
    ELSE IF is_initialized(c) THEN Fail(c, "ModuleInitTwice", "list")
    ELSE LET r == find_pointer_var_slot(c.variables)
         IN IF ~r.found THEN Fail(c, "TooManyVars", "")
            ELSE [c EXCEPT !.module_state =
                      MapInsert(MapInsert(@, POINTER, r.v), INIT, TRUE)]

\* *compiler.get_module_state::<u8>(POINTER).unwrap()
pointer_of(c) ==
    IF MapHas(c.module_state, POINTER)
    THEN [found |-> TRUE, v |-> MapGet(c.module_state, POINTER)]
    ELSE [found |-> FALSE, v |-> 0]

list_add(c, args) ==
    LET c0 == arg_parse(c, 1, args)
        ptr == pointer_of(c)
    IN IF ~Ok(c0) THEN c0
       ELSE IF ~ptr.found THEN Panic(c0)
       ELSE LET c1 == eval_expr_(c0, args[1])
                c2 == IF Ok(c1) /\ last_scope(c1).state.b # Variable(ptr.v)
                      THEN instr_(c1, "LB", ptr.v) ELSE c1
                c3 == instr_(instr_(c2, "RC", NoArg), "RW", NoArg)
            IN instr_(instr_(instr_(c3, "LAL", 1), "ADD", NoArg), "SVA", ptr.v)

list_pop(c, args) ==
    LET c0 == arg_parse(c, 0, args)
        ptr == pointer_of(c)
    IN IF ~Ok(c0) THEN c0
       ELSE IF ~ptr.found THEN Panic(c0)
       ELSE LET c1 == IF last_scope(c0).state.a # Variable(ptr.v)
                      THEN instr_(c0, "LA", ptr.v) ELSE c0
                c2 == instr_(instr_(instr_(c1, "LBL", 1), "SUB", NoArg), "SVA", ptr.v)
            IN instr_(instr_(c2, "RC", NoArg), "RR", NoArg)

list_get_pointer(c, args) ==
    LET c0 == arg_parse(c, 0, args)
        ptr == pointer_of(c)
    IN IF ~Ok(c0) THEN c0
       ELSE IF ~ptr.found THEN Panic(c0)
       ELSE instr_(c0, "LA", ptr.v)

list_set_pointer(c, args) ==
    LET c0 == arg_parse(c, 1, args)
        ptr == pointer_of(c)
    IN IF ~Ok(c0) THEN c0
       ELSE IF ~ptr.found THEN Panic(c0)
       ELSE instr_(eval_expr_(c0, args[1]), "SVA", ptr.v)

list_last(c, args) ==
    LET c0 == arg_parse(c, 0, args)
        ptr == pointer_of(c)
    IN IF ~Ok(c0) THEN c0
       ELSE IF ~ptr.found THEN Panic(c0)
       ELSE LET c1 == IF last_scope(c0).state.a # Variable(ptr.v)
                      THEN instr_(c0, "LA", ptr.v) ELSE c0
                c2 == instr_(instr_(c1, "LBL", 1), "SUB", NoArg)
            IN instr_(instr_(c2, "RC", NoArg), "RR", NoArg)

list_at(c, args) ==
    LET c0 == arg_parse(c, 1, args)
    IN IF ~Ok(c0) THEN c0
       ELSE LET address == args[1]
                c1 == IF can_put_into_b(address) THEN put_into_b_(c0, address)
                      ELSE LET e == eval_expr_(c0, address)
                           IN IF address.typ = "Assignment"
                              THEN load_var_(e, "LB", address.symbol)
                              ELSE switch_(e)
            IN IF ~Ok(c1) THEN c1
               ELSE LET k == try_get_constant_(c1, address)
                        c2 == IF k.panic THEN Panic(c1)
                              ELSE IF k.some
                                      /\ last_scope(c1).state.ram_page = ThisOne(page_of(k.v))
                              THEN c1
                              ELSE instr_(c1, "RC", NoArg)
                    IN instr_(c2, "RR", NoArg)

list_module(c, method, args) ==
    CASE method = "add"         -> list_add_(c, args)
      [] method = "pop"         -> list_pop_(c, args)
      [] method = "get_pointer" -> list_get_pointer_(c, args)
      [] method = "set_pointer" -> list_set_pointer_(c, args)
      [] method = "last"        -> list_last_(c, args)
      [] method = "at"          -> list_at_(c, args)
      [] OTHER -> Fail(c, "UnknownMethod", method)

\* io.read / io.write: the slot must be a compile-time constant in 0..7
io_slot(c, expr, what) ==
    LET k == try_get_constant_(c, expr)
    IN IF k.panic THEN [c |-> Panic(c), v |-> 0]
       ELSE IF ~k.some
       THEN [c |-> Fail(c, "InvalidArgs", what \o " slot has to be known at compile time"),
             v |-> 0]
       ELSE IF ~(k.v >= 0 /\ k.v < 8)
       THEN [c |-> Fail(c, "InvalidArgs", what \o " slot has to be from 0 to 7"), v |-> 0]
       ELSE [c |-> c, v |-> k.v]

io_read(c, args) ==
    IF Len(args) # 1 THEN Fail(c, "InvalidArgs", "args")
    ELSE LET s == io_slot_(c, args[1], "Input")
         IN IF ~Ok(s.c) THEN s.c ELSE instr_(s.c, "LA", s.v + 32)

io_write(c, args) ==
    IF Len(args) # 2 THEN Fail(c, "InvalidArgs", "args")
    ELSE LET s == io_slot_(c, args[2], "Output")
         IN IF ~Ok(s.c) THEN s.c
            ELSE instr_(eval_expr_(s.c, args[1]), "SVA", s.v + 32)

io_module(c, method, args) ==
    CASE method = "write" -> io_write_(c, args)
      [] method = "read"  -> io_read_(c, args)
      [] OTHER -> Fail(c, "UnknownMethod", method)

\* the dispatcher: the handler registered under the module's name
call(module, c, method, args) ==
    IF ~Ok(c) THEN c
    ELSE CASE module = "io"     -> io_module_(c, method, args)
           [] module = "screen" -> screen_module_(c, method, args)
           [] module = "ram"    -> ram_module_(c, method, args)
           [] module = "list"   -> list_module_(c, method, args)
           [] OTHER -> Fail(c, "UnknownModule", module)

\* the init hook registered with the module, if any
init(module, c) == IF module = "list" THEN list_init_(c) ELSE c

eval_call(c, function, args) ==
    IF function.typ # "Member" THEN Fail(c, "UnknownMethod", "")
    ELSE IF function.object.typ # "Identifier" THEN Fail(c, "UnknownModule", "")
    ELSE IF function.object.symbol \notin c.modules
         THEN Fail(c, "UnknownModule", function.object.symbol)
    ELSE call_(function.object.symbol, c, function.property, args)

eval_expr(c, expr) ==
    IF ~Ok(c) THEN c
    ELSE CASE expr.typ \in {"NumericLiteral", "Identifier"} -> put_into_a_(c, expr)
           [] expr.typ = "BinaryExpr" ->
                eval_binary_expr_(c, expr.left, expr.right, expr.operator)
           [] expr.typ = "Assignment" -> eval_assignment_(c, expr.symbol, expr.value)
           [] expr.typ = "Call" -> eval_call_(c, expr.function, expr.args)
           [] expr.typ = "EqExpr" -> Fail(c, "EqInNormalExpr", "")
           [] expr.typ = "Debug" -> instr_(c, "LAL", 17)
           [] OTHER -> Panic(c)

-----------------------------------------------------------------------------
(* Statement lowering and control flow *)

\* body.into_iter().try_for_each(|line| self.eval_statement(line)): the statements
\* in order, none after the first error; the first half of the body is lowered, then
\* the second, so that the recursion stays shallow on long bodies
eval_body(c, body) ==
    IF ~Ok(c) \/ body = <<>> THEN c
    ELSE IF Len(body) = 1 THEN eval_statement_(c, body[1])
    ELSE eval_body_(eval_body_(c, SubSeq(body, 1, Len(body) \div 2)),
                    SubSeq(body, Len(body) \div 2 + 1, Len(body)))

push_scope(c, body, state) ==
    IF ~Ok(c) THEN c
    ELSE eval_body_([c EXCEPT !.scopes = Append(@, Scope_with_state(state))], body)

\* a comparison that keeps the operator when put_ab has swapped the operands
put_comparison_unturned(c, left, right, operator, jump_to) ==
    LET r == put_ab_(c, left, right, TRUE)
    IN instr_(r.c, from_op(operator), jump_to)

put_comparison(c, left, right, operator, jump_to) ==
    LET r == put_ab_(c, left, right, TRUE)
        op == IF r.swapped THEN turnaround(operator) ELSE operator
    IN instr_(r.c, from_op(op), jump_to)

\* an elif chain whose bodies fall through into the next comparison
eval_paths_falling_through(c, paths, index, has_alternate, end_id) ==
    IF ~Ok(c) \/ index > Len(paths) THEN c
    ELSE LET condition == paths[index][1]
             body == paths[index][2]
         IN IF condition.typ # "EqExpr" THEN Fail(c, "NormalInEqExpr", "")
            ELSE LET m == insert_jump_mark_(c)
                     c1 == put_comparison_(m.c, condition.left, condition.right,
                                          opposite(condition.operator), m.v)
                     c2 == IF Ok(c1) THEN push_scope_(c1, body, last_scope(c1).state) ELSE c1
                     c4 == bind_mark_(pop_scope_(c2), m.v)
                 IN eval_paths_(c4, paths, index + 1, has_alternate, end_id)

\* the elif chain of eval_conditional, from path `index` (1-based) on
eval_paths(c, paths, index, has_alternate, end_id) ==
    IF ~Ok(c) \/ index > Len(paths) THEN c
    ELSE LET condition == paths[index][1]
             body == paths[index][2]
         IN IF condition.typ # "EqExpr" THEN Fail(c, "NormalInEqExpr", "")
            ELSE LET m == insert_jump_mark_(c)
                     c1 == put_comparison_(m.c, condition.left, condition.right,
                                          opposite(condition.operator), m.v)
                     c2 == IF Ok(c1) THEN push_scope_(c1, body, last_scope(c1).state) ELSE c1
                     c3 == IF index # Len(paths) \/ has_alternate
                           THEN instr_(c2, "JMP", end_id) ELSE c2
                     c4 == bind_mark_(pop_scope_(c3), m.v)
                 IN eval_paths_(c4, paths, index + 1, has_alternate, end_id)

eval_conditional(c, condition, body, paths, alternate) ==
    IF condition.typ # "EqExpr" THEN Fail(c, "NormalInEqExpr", "")
    ELSE LET e == insert_jump_mark_(c)
             n == insert_jump_mark_(e.c)
             end_id == e.v
             c1 == put_comparison_(n.c, condition.left, condition.right,
                                  opposite(condition.operator), n.v)
             c2 == IF Ok(c1) THEN push_scope_(c1, body, last_scope(c1).state) ELSE c1
             c3 == IF paths # <<>> \/ alternate # <<>>
                   THEN instr_(c2, "JMP", end_id) ELSE c2
             c4 == bind_mark_(pop_scope_(c3), n.v)
             c5 == eval_paths_(c4, paths, 1, alternate # <<>>, end_id)
             \* last_state is the state of the enclosing scope after the last comparison
             c6 == IF Ok(c5) /\ alternate # <<>>
                   THEN pop_scope_(push_scope_(c5, alternate[1], last_scope(c5).state))
                   ELSE c5
         IN bind_mark_(c6, end_id)

eval_statement(c, line) ==
    IF ~Ok(c) THEN c
    ELSE CASE line.typ = "InlineDeclaration" ->
                LET r == eval_after_inline(c, line.value)
                IN IF r.err = "panic" THEN Panic(c)
                   ELSE IF r.err # "none"
                   THEN Fail(c, r.err, IF r.err = "NonexistentInlineVar" THEN "inline" ELSE "")
                   ELSE insert_inline_var(c, line.symbol, r.v)
           [] line.typ = "Use" ->
                IF ~is_root_scope(c) THEN Fail(c, "UseOutsideGlobalScope", "")
                ELSE IF ~exist(line.module) THEN Fail(c, "UnknownModule", line.module)
                ELSE LET c1 == init_(line.module, c)
                     IN IF Ok(c1) THEN [c1 EXCEPT !.modules = @ \cup {line.module}] ELSE c1
           [] line.typ = "VarDeclaration" -> insert_var_(c, line.symbol).c
           [] line.typ = "Pass" -> c
           [] line.typ = "EndlessLoop" ->
                LET mark == scope_len(c.scopes[1].instructions)
                    m == insert_jump_mark_(c)
                IN IF mark.panic THEN Panic(c)
                   ELSE LET c1 == [m.c EXCEPT !.jump_marks = mark_insert(@, m.v, mark.v),
                                              !.bound = MapInsert(@, m.v, TotalEmitted(c))]
                            c2 == pop_scope_(push_scope_(c1, line.body, ComputerState))
                        IN instr_(c2, "JMP", m.v)
           [] line.typ = "WhileLoop" ->
                LET condition == line.condition
                IN IF condition.typ # "EqExpr" THEN Fail(c, "NormalInEqExpr", "")
                   ELSE LET s == insert_jump_mark_(c)
                            e == insert_jump_mark_(s.c)
                            c1 == put_comparison_(e.c, condition.left, condition.right,
                                                 opposite(condition.operator), e.v)
                            c2 == bind_mark_(c1, s.v)
                            c3 == IF Ok(c2)
                                  THEN push_scope_(c2, line.body, last_scope(c2).state)
                                  ELSE c2
                            c4 == put_comparison_(c3, condition.left, condition.right,
                                                 condition.operator, s.v)
                        IN bind_mark_(pop_scope_(c4), e.v)
           [] line.typ = "Conditional" ->
                eval_conditional_(c, line.condition, line.body, line.paths, line.alternate)
           [] OTHER -> eval_expr_(c, line)


Rec(f, c, args) ==
    CASE f = "push_instr" -> push_instr(c, args[1])
      [] f = "instr" -> instr(c, args[1], args[2])
      [] f = "insert_var" -> insert_var(c, args[1])
      [] f = "insert_temp_var" -> insert_temp_var(c)
      [] f = "insert_jump_mark" -> insert_jump_mark(c)
      [] f = "bind_mark" -> bind_mark(c, args[1])
      [] f = "pop_scope" -> pop_scope(c)
      [] f = "try_get_constant" -> try_get_constant(c, args[1])
      [] f = "put_a_number" -> put_a_number(c, args[1])
      [] f = "put_b_number" -> put_b_number(c, args[1])
      [] f = "put_into_b" -> put_into_b(c, args[1])
      [] f = "switch" -> switch(c)
      [] f = "put_op" -> put_op(c, args[1])
      [] f = "load_b_var_unwrap" -> load_b_var_unwrap(c, args[1])
      [] f = "load_var" -> load_var(c, args[1], args[2])
      [] f = "put_into_a" -> put_into_a(c, args[1])
      [] f = "put_ab" -> put_ab(c, args[1], args[2], args[3])
      [] f = "eval_binary_expr" -> eval_binary_expr(c, args[1], args[2], args[3])
      [] f = "eval_assignment" -> eval_assignment(c, args[1], args[2])
      [] f = "put_address" -> put_address(c, args[1])
      [] f = "ram_copy" -> ram_copy(c, args[1])
      [] f = "ram_write" -> ram_write(c, args[1])
      [] f = "ram_read" -> ram_read(c, args[1])
      [] f = "ram_module" -> ram_module(c, args[1], args[2])
      [] f = "write_screenop" -> write_screenop(c, args[1])
      [] f = "put_xy" -> put_xy(c, args[1], args[2], args[3])
      [] f = "write_screenpos" -> write_screenpos(c, args[1], args[2])
      [] f = "pixel_operation" -> pixel_operation(c, args[1], args[2])
      [] f = "screen_operation" -> screen_operation(c, args[1], args[2])
      [] f = "whole_pixel_operation" -> whole_pixel_operation(c, args[1], args[2])
      [] f = "screen_module" -> screen_module(c, args[1], args[2])
      [] f = "list_init" -> list_init(c)
      [] f = "list_add" -> list_add(c, args[1])
      [] f = "list_pop" -> list_pop(c, args[1])
      [] f = "list_get_pointer" -> list_get_pointer(c, args[1])
      [] f = "list_set_pointer" -> list_set_pointer(c, args[1])
      [] f = "list_last" -> list_last(c, args[1])
      [] f = "list_at" -> list_at(c, args[1])
      [] f = "list_module" -> list_module(c, args[1], args[2])
      [] f = "io_slot" -> io_slot(c, args[1], args[2])
      [] f = "io_read" -> io_read(c, args[1])
      [] f = "io_write" -> io_write(c, args[1])
      [] f = "io_module" -> io_module(c, args[1], args[2])
      [] f = "call" -> call(args[1], c, args[2], args[3])
      [] f = "init" -> init(args[1], c)
      [] f = "eval_call" -> eval_call(c, args[1], args[2])
      [] f = "eval_expr" -> eval_expr(c, args[1])
      [] f = "eval_body" -> eval_body(c, args[1])
      [] f = "push_scope" -> push_scope(c, args[1], args[2])
      [] f = "put_comparison" -> put_comparison(c, args[1], args[2], args[3], args[4])
      [] f = "eval_paths" -> eval_paths(c, args[1], args[2], args[3], args[4])
      [] f = "eval_conditional" -> eval_conditional(c, args[1], args[2], args[3], args[4])
      [] f = "eval_statement" -> eval_statement(c, args[1])

-----------------------------------------------------------------------------
(* Flattening and linking *)

\* the entries in order, nested scopes in place; the two halves of the vector are
\* flattened separately so that the recursion stays shallow on long scopes
RECURSIVE flatten_scope(_)
flatten_scope(scope) ==
    IF scope = <<>> THEN <<>>
    ELSE IF Len(scope) = 1
    THEN (IF scope[1].k = "Code" THEN <<scope[1].instr>> ELSE flatten_scope(scope[1].scope))
    ELSE flatten_scope(SubSeq(scope, 1, Len(scope) \div 2))
         \o flatten_scope(SubSeq(scope, Len(scope) \div 2 + 1, Len(scope)))

\* the 64-instruction page of an index
PAGE == 64

page(index) == index \div PAGE

\* move_jump_marks: `*value += by` on a u8 panics with overflow checks above 255
move_jump_marks(jump_marks, from, by) ==
    [m \in 1..Len(jump_marks) |->
        IF jump_marks[m] >= from THEN (jump_marks[m] + by) % 256 ELSE jump_marks[m]]

move_jump_marks_panics(jump_marks, from, by) ==
    overflow_checks /\ \E m \in 1..Len(jump_marks) :
        jump_marks[m] >= from /\ jump_marks[m] + by > 255

InsertAt(seq, index, elem) ==
    SubSeq(seq, 1, index) \o <<elem>> \o SubSeq(seq, index + 1, Len(seq))

\* a promotion that inserts the page selector without its page
promote_bare_lcl(instrs, jump_marks, k) ==
    InsertAt([instrs EXCEPT ![k + 1].variant = to_disc_jump(instrs[k + 1].variant)], k,
             Instruction_new("LCL", NoArg))

\* the instruction vector after the promotion of the near jump at (0-based) index k
promote(instrs, jump_marks, k) ==
    LET jmp == instrs[k + 1]
        jump_page == page(jump_marks[jmp.arg + 1])
    IN InsertAt([instrs EXCEPT ![k + 1].variant = to_disc_jump(jmp.variant)], k,
                Instruction_new("LCL", jump_page))

\* the test of insert_disc_jumps on the instruction at (0-based) index k
needs_disc_jump(instrs, jump_marks, k) ==
    LET jmp == instrs[k + 1]
    IN /\ is_jump(jmp.variant) /\ ~disc_jump(jmp.variant)
       /\ page(k) # page(jump_marks[jmp.arg + 1])

\* a replacement that resolves the near jumps only
replace_near_jump_marks(instrs, jump_marks) ==
    [k \in 1..Len(instrs) |->
        IF is_jump(instrs[k].variant) /\ ~disc_jump(instrs[k].variant)
        THEN [instrs[k] EXCEPT !.arg = jump_marks[instrs[k].arg + 1]]
        ELSE instrs[k]]

replace_jump_marks(instrs, jump_marks) ==
    [k \in 1..Len(instrs) |->
        IF is_jump(instrs[k].variant)
        THEN [instrs[k] EXCEPT !.arg = jump_marks[instrs[k].arg + 1]]
        ELSE instrs[k]]

-----------------------------------------------------------------------------
(* The concrete machine *)

NoPage == -1

\* registers, the 32 variable slots and the selected RAM page; the registers start
\* with unrelated content and no page is selected
Machine_new ==
    [a |-> -21846, b |-> 21845, slots |-> [s \in 0..(VAR_SLOTS - 1) |-> 0], pc |-> 0,
     page |-> NoPage]

\* one instruction of straight-line code on the concrete machine: LA/LB load a
\* slot, SVA stores A and changes no register, the immediates set the low byte
\* (clearing the register) and add the high byte, an ALU opcode puts A op B into A,
\* RC selects the RAM page of the address in B
machine_step(m, ins) ==
    LET v == ins.variant
        arg == arg_or_0(ins)
        next == [m EXCEPT !.pc = m.pc + 1]
    IN CASE v = "LA"  -> [next EXCEPT !.a = m.slots[arg]]
         [] v = "LB"  -> [next EXCEPT !.b = m.slots[arg]]
         [] v = "SVA" -> [next EXCEPT !.slots[arg] = m.a]
         [] v = "LAL" -> [next EXCEPT !.a = arg]
         [] v = "LAH" -> [next EXCEPT !.a = ToI16(m.a + arg * 256)]
         [] v = "LBL" -> [next EXCEPT !.b = arg]
         [] v = "LBH" -> [next EXCEPT !.b = ToI16(m.b + arg * 256)]
         [] v = "ADD" -> [next EXCEPT !.a = ToI16(Exact("Plus", m.a, m.b))]
         [] v = "SUB" -> [next EXCEPT !.a = ToI16(Exact("Minus", m.a, m.b))]
         [] v = "MUL" -> [next EXCEPT !.a = ToI16(Exact("Mult", m.a, m.b))]
         [] v = "AND" -> [next EXCEPT !.a = Exact("And", m.a, m.b)]
         [] v = "OR"  -> [next EXCEPT !.a = Exact("Or", m.a, m.b)]
         [] v = "XOR" -> [next EXCEPT !.a = Exact("Xor", m.a, m.b)]
         [] v = "RC"  -> [next EXCEPT !.page = m.b \div 16]
         [] OTHER -> next

-----------------------------------------------------------------------------
(* The pipeline as a state machine *)

Occupied(c) == {s \in 0..(VAR_SLOTS - 1) : c.variables[s]}

\* ghost snapshot taken before a top-level statement is lowered
Snapshot(c) ==
    [occupied |-> Occupied(c), named |-> c.scopes[1].variables,
     instructions |-> c.scopes[1].instructions, modules |-> c.modules,
     module_state |-> c.module_state]

InitCompile(programs) ==
    /\ overflow_checks \in BOOLEAN
    /\ task = "compile"
    /\ ast \in programs
    /\ next_stmt = 1
    /\ compiler = Compiler_new
    /\ phase = "lower"
    /\ instructions = <<>>
    /\ i = 0
    /\ changes = FALSE
    /\ passes = 0
    /\ before = Snapshot(Compiler_new)
    /\ machine = Machine_new
    /\ input = <<>>
    /\ output = <<>>

\* generate_assembly: one top-level statement; the first error (or panic) ends the session
EvalStatement ==
    /\ task = "compile" /\ phase = "lower" /\ next_stmt <= Len(ast)
    /\ LET c == eval_statement_(compiler, ast[next_stmt])
       IN /\ compiler' = c
          /\ phase' = IF Ok(c) THEN "lower"
                      ELSE IF c.err.typ = "panic" THEN "panic" ELSE "error"
    /\ before' = Snapshot(compiler)
    /\ next_stmt' = next_stmt + 1
    /\ UNCHANGED <<overflow_checks, task, ast, instructions, i, changes, passes, machine,
                   input, output>>

\* get_instructions up to the first pass of insert_disc_jumps
GetInstructions ==
    /\ task = "compile" /\ phase = "lower" /\ next_stmt > Len(ast)
    /\ LET main == Append(compiler.main_scope, InstrScope(compiler.scopes[1].instructions))
       IN /\ instructions' = flatten_scope(main)
          /\ compiler' = [compiler EXCEPT !.main_scope = main]
    /\ phase' = "disc"
    /\ i' = 0
    /\ changes' = FALSE
    /\ UNCHANGED <<overflow_checks, task, ast, next_stmt, passes, before, machine,
                   input, output>>

NearCrossing == {k \in i..(Len(instructions) - 1) :
                    needs_disc_jump(instructions, compiler.jump_marks, k)}

\* insert_disc_jumps: the inner loop runs up to the next near jump that leaves its
\* page and promotes it
DiscJump ==
    /\ task = "compile" /\ phase = "disc" /\ NearCrossing # {}
    /\ LET k == CHOOSE k \in NearCrossing : \A j \in NearCrossing : k <= j
       IN IF move_jump_marks_panics(compiler.jump_marks, k % 256, 1)
          THEN /\ phase' = "panic"
               /\ UNCHANGED <<instructions, compiler, i, changes>>
          ELSE /\ instructions' = promote(instructions, compiler.jump_marks, k)
               /\ compiler' = [compiler EXCEPT
                                  !.jump_marks = move_jump_marks(@, k % 256, 1)]
               /\ i' = k + 2
               /\ changes' = TRUE
               /\ phase' = "disc"
    /\ UNCHANGED <<overflow_checks, task, ast, next_stmt, passes, before, machine,
                   input, output>>

\* insert_disc_jumps: the inner loop runs off the end; another pass if anything changed
DiscPassEnd ==
    /\ task = "compile" /\ phase = "disc" /\ NearCrossing = {}
    /\ IF changes
       THEN /\ i' = 0 /\ changes' = FALSE /\ phase' = "disc"
       ELSE /\ i' = Len(instructions) /\ changes' = FALSE /\ phase' = "replace"
    /\ passes' = passes + 1
    /\ UNCHANGED <<overflow_checks, task, ast, next_stmt, compiler, instructions, before,
                   machine, input, output>>

ReplaceJumpMarks ==
    /\ task = "compile" /\ phase = "replace"
    /\ instructions' = replace_jump_marks(instructions, compiler.jump_marks)
    /\ phase' = "done"
    /\ UNCHANGED <<overflow_checks, task, ast, next_stmt, compiler, i, changes, passes,
                   before, machine, input, output>>

\* the concrete machine runs the next instruction of a jump-free output
Exec ==
    /\ task = "compile" /\ phase = "done"
    /\ machine.pc < Len(instructions)
    /\ ~is_jump(instructions[machine.pc + 1].variant)
    /\ machine' = machine_step(machine, instructions[machine.pc + 1])
    /\ UNCHANGED <<overflow_checks, task, ast, next_stmt, compiler, phase, instructions, i,
                   changes, passes, before, input, output>>

Halted == phase = "done" /\ machine.pc = Len(instructions)

-----------------------------------------------------------------------------
(* Straight-line programs of assignments, run on the concrete machine *)

MaxStmts == 3

Names == {"x", "y"}
Literals == {1}
Operators == {"Plus", "Minus"}

Simple == {NumericLiteral(v) : v \in Literals} \cup {Identifier(n) : n \in Names}

StraightExprs ==
    Simple \cup {BinaryExpr(l, op, r) : l \in Simple, op \in Operators, r \in Simple}

StraightStmts == {Assignment(n, e) : n \in Names, e \in StraightExprs}

RECURSIVE Reads(_)
Reads(expr) ==
    CASE expr.typ = "Identifier" -> {expr.symbol}
      [] expr.typ = "BinaryExpr" -> Reads(expr.left) \cup Reads(expr.right)
      [] OTHER -> {}

\* every variable a statement reads has been assigned by an earlier statement
AssignedBeforeRead(program) ==
    \A k \in 1..Len(program) :
        Reads(program[k].value) \subseteq {program[j].symbol : j \in 1..(k - 1)}

StraightPrograms ==
    {p \in UNION {[1..n -> StraightStmts] : n \in 1..MaxStmts} : AssignedBeforeRead(p)}

Init == InitCompile(StraightPrograms)

Next == EvalStatement \/ GetInstructions \/ DiscPassEnd \/ ReplaceJumpMarks \/ Exec

Spec == Init /\ [][Next]_vars

\* the value the source program gives an expression: 16-bit two's-complement arithmetic
RECURSIVE SourceValue(_, _)
SourceValue(expr, env) ==
    CASE expr.typ = "NumericLiteral" -> expr.value
      [] expr.typ = "Identifier" -> env[expr.symbol]
      [] expr.typ = "BinaryExpr" ->
            ToI16(Exact(expr.operator, SourceValue(expr.left, env),
                        SourceValue(expr.right, env)))

\* the environment after the first n assignments of the program
RECURSIVE SourceEnv(_, _)
SourceEnv(program, n) ==
    IF n = 0 THEN [v \in Names |-> 0]
    ELSE LET env == SourceEnv(program, n - 1)
         IN [env EXCEPT ![program[n].symbol] = SourceValue(program[n].value, env)]

\* C1: when the emitted code of a straight-line program of assignments has run on
\* the concrete machine, every variable slot holds the value the source program
\* assigns to that variable.
C1_SlotsHoldSourceValues ==
    Halted => \A p \in compiler.scopes[1].variables :
                  machine.slots[p[2]] = SourceEnv(ast, Len(ast))[p[1]]

-----------------------------------------------------------------------------
(* Programs with one conditional or loop whose body spans instruction pages *)

MaxBody == 125

\* body lengths on both sides of the page boundaries at 64 and 128
BodySizes == {0, 1} \cup (59..61) \cup (122..MaxBody)

\* n `debug` statements: each lowers to one instruction
Fill(n) == [k \in 1..n |-> Debug]

LinkConditions ==
    {EqExpr(Identifier("x"), op, NumericLiteral(1)) : op \in {"EqualTo", "Less"}}

LinkStatements ==
    UNION {{Conditional(cond, Fill(n), <<>>, <<>>),
            Conditional(cond, Fill(n), <<>>, <<Fill(1)>>),
            Conditional(cond, Fill(1), <<<<cond, Fill(n)>>>>, <<>>),
            WhileLoop(cond, Fill(n)),
            EndlessLoop(Fill(n))} : cond \in LinkConditions, n \in BodySizes}

\* x = 0, the statement, and possibly one more statement after it
LinkPrograms ==
    {<<Assignment("x", NumericLiteral(0)), s>> : s \in LinkStatements}
    \cup {<<Assignment("x", NumericLiteral(0)), s, Debug>> : s \in LinkStatements}

InitLink == InitCompile(LinkPrograms)

NextLink == EvalStatement \/ GetInstructions \/ DiscJump \/ DiscPassEnd \/ ReplaceJumpMarks

SpecLink == InitLink /\ [][NextLink]_vars

\* C2: in the returned list every jump whose resolved target lies on another
\* 64-instruction page than the jump itself is a far jump, and the instruction
\* just before it is LCL p with p the page of that final target.
C2_PageSafety ==
    phase = "done" =>
        \A k \in 1..Len(instructions) :
            (is_jump(instructions[k].variant)
             /\ page(instructions[k].arg) # page(k - 1)) =>
                /\ disc_jump(instructions[k].variant)
                /\ k > 1
                /\ instructions[k - 1] = Instruction_new("LCL", page(instructions[k].arg))

IsJump(ins) == is_jump(ins.variant)

\* the jumps of the list before linking and of the linked list, in order: linking
\* inserts only LCL instructions, so the j-th jump of one is the j-th of the other
EmittedJumps == SelectSeq(flatten_scope(compiler.main_scope), IsJump)
LinkedJumps == SelectSeq(instructions, IsJump)

\* C3 (amended): in the returned list the arg of every jump is the resolved target
\* of its mark and lies in 0..length: a mark bound after the last instruction
\* (a trailing loop or conditional) resolves to the length itself.
C3_JumpsResolved ==
    phase = "done" =>
        /\ Len(LinkedJumps) = Len(EmittedJumps)
        /\ \A j \in 1..Len(LinkedJumps) :
              /\ LinkedJumps[j].arg = compiler.jump_marks[EmittedJumps[j].arg + 1]
              /\ LinkedJumps[j].arg >= 0
              /\ LinkedJumps[j].arg <= Len(instructions)

\* C3 as stated: every jump arg is resolved and is an index below the length.
C3_JumpsBelowLength ==
    phase = "done" =>
        /\ Len(LinkedJumps) = Len(EmittedJumps)
        /\ \A j \in 1..Len(LinkedJumps) :
              /\ LinkedJumps[j].arg = compiler.jump_marks[EmittedJumps[j].arg + 1]
              /\ LinkedJumps[j].arg >= 0
              /\ LinkedJumps[j].arg < Len(instructions)

\* a linked program whose last statement is a loop or conditional: a jump targets
\* the index just past the last instruction, and a mark id differs from its target
C3_TrailingLoopLinked ==
    /\ phase = "done"
    /\ \E j \in 1..Len(LinkedJumps) :
          /\ LinkedJumps[j].arg = Len(instructions)
          /\ LinkedJumps[j].arg # EmittedJumps[j].arg

ArgMatchesOpcode(ins) == has_arg(ins.variant) <=> (ins.arg # NoArg)

\* C4: every instruction has an argument exactly when its opcode's has-arg flag is
\* set: in the scopes during emission, after each promotion of a near jump with
\* its inserted LCL, and after the replacement of mark ids by targets.
C4_ArgIffHasArg ==
    /\ \A s \in 1..Len(compiler.scopes) :
          LET emitted == flatten_scope(compiler.scopes[s].instructions)
          IN \A k \in 1..Len(emitted) : ArgMatchesOpcode(emitted[k])
    /\ \A k \in 1..Len(instructions) : ArgMatchesOpcode(instructions[k])

\* a returned list in which a jump was promoted (LCL before a far jump)
C4_PromotedAndLinked ==
    /\ phase = "done"
    /\ \E k \in 2..Len(instructions) :
          /\ instructions[k - 1].variant = "LCL"
          /\ disc_jump(instructions[k].variant)

-----------------------------------------------------------------------------
(* Statements that claim temporaries: binary expressions and module methods *)

MaxOperand == 1

ArenaSimple == {NumericLiteral(v) : v \in 0..MaxOperand} \cup {Identifier("x")}

ArenaComplex == {BinaryExpr(Identifier("x"), op, NumericLiteral(1)) : op \in {"Plus", "Minus"}}

ArenaOperands == ArenaSimple \cup ArenaComplex

Method(module, property) == Member(Identifier(module), property)

ArenaStatements ==
    {Assignment("y", BinaryExpr(l, op, r)) :
        l \in ArenaOperands, op \in {"Plus", "Minus"}, r \in ArenaOperands}
    \cup {Call(Method("ram", m), <<a, b>>) :
            m \in {"write", "copy"}, a \in ArenaOperands, b \in ArenaOperands}
    \cup {Call(Method("ram", "read"), <<a>>) : a \in ArenaOperands}
    \cup {Call(Method("screen", "set_at"), <<a, b>>) :
            a \in ArenaOperands, b \in ArenaOperands}

\* use ram; use screen; x = 1; one or two of the statements
ArenaPrograms ==
    {<<Use("ram"), Use("screen"), Assignment("x", NumericLiteral(1)), s>> :
        s \in ArenaStatements}
    \cup {<<Use("ram"), Use("screen"), Assignment("x", NumericLiteral(1)), s,
            Assignment("z", BinaryExpr(Identifier("x"), "Minus", ArenaComplexOperand))>> :
            s \in ArenaStatements, ArenaComplexOperand \in ArenaComplex}

InitArena == InitCompile(ArenaPrograms)

NextArena == EvalStatement \/ GetInstructions

SpecArena == InitArena /\ [][NextArena]_vars

\* C5: after a successfully lowered statement the occupied arena slots are those
\* occupied before it plus the slots of the named variables it declared: every
\* temporary it claimed has been released.
C5_TemporariesReleased ==
    (task = "compile" /\ phase = "lower" /\ next_stmt > 1) =>
        Occupied(compiler) =
            before.occupied \cup {p[2] : p \in compiler.scopes[1].variables \ before.named}

-----------------------------------------------------------------------------
(* The pure functions, each applied to an input drawn by the initial state *)

InitPure(t, inputs, compilers) ==
    /\ overflow_checks \in BOOLEAN
    /\ task = t
    /\ input \in inputs
    /\ output = <<>>
    /\ phase = "input"
    /\ compiler \in compilers
    /\ ast = <<>>
    /\ next_stmt = 1
    /\ instructions = <<>>
    /\ i = 0
    /\ changes = FALSE
    /\ passes = 0
    /\ before = Snapshot(Compiler_new)
    /\ machine = Machine_new

-----------------------------------------------------------------------------
(* The inline evaluator on expressions over literals and the inline variable K *)

\* the ends of the i16 range, and 181 * 181 < 32768 <= 182 * 182
InlineLiterals == {-32768, -32767, -1, 0, 1, 2, 181, 182, 32767}

InlineAtoms == {NumericLiteral(v) : v \in InlineLiterals} \cup {Identifier("K")}

InlineOperators == {"Plus", "Minus", "Mult", "And", "Or", "Xor"}

InlineExprs ==
    InlineAtoms \cup {BinaryExpr(l, op, r) : l \in InlineAtoms, op \in InlineOperators,
                                             r \in InlineAtoms}

\* compilers whose root scope declares `inline K`
InlineCompilers == {insert_inline_var(Compiler_new, "K", v) : v \in {3, 32767}}

InitInline == InitPure("inline", InlineExprs, InlineCompilers)

EvalAfterInline ==
    /\ task = "inline" /\ phase = "input"
    /\ output' = eval_after_inline(compiler, input)
    /\ phase' = "output"
    /\ UNCHANGED <<overflow_checks, task, ast, next_stmt, compiler, instructions, i, changes,
                   passes, before, machine, input>>

NextInline == EvalAfterInline

SpecInline == InitInline /\ [][NextInline]_vars

\* C6: on an expression over numeric literals, inline identifiers and + - * & | ^
\* the inline evaluator returns the result of 16-bit two's-complement wrapping
\* arithmetic, also where the exact result leaves the i16 range.
C6_InlineWraps ==
    (task = "inline" /\ phase = "output") =>
        /\ output.err = "none"
        /\ output.v = SourceValue(input, [n \in {"K"} |-> get_inline_var(compiler, "K").v])

-----------------------------------------------------------------------------
(* The 16-bit encoding of the instructions the compiler emits *)

MaxArg == 2

\* the opcodes pushed by the lowering functions, the module methods and the linker
EmittedVariants ==
    {"LA", "LB", "SVA", "LAL", "LAH", "LBL", "LBH", "LCL", "ADD", "SUB", "MUL", "AND", "OR",
     "XOR", "SUP", "RW", "RR", "RC", "JMP", "JE", "JNE", "JG", "JGE", "JL", "JLE", "JMD",
     "JDE", "JDN", "JDG", "JDGE", "JDL", "JDLE"}

EmittedInstructions ==
    {Instruction_new(v, a) : v \in {w \in EmittedVariants : has_arg(w)}, a \in 0..MaxArg}
    \cup {Instruction_new(v, NoArg) : v \in {w \in EmittedVariants : ~has_arg(w)}}

InitEnc == InitPure("to_bin", EmittedInstructions, {Compiler_new})

ToBin ==
    /\ task = "to_bin" /\ phase = "input"
    /\ output' = to_bin(input)
    /\ phase' = "output"
    /\ UNCHANGED <<overflow_checks, task, ast, next_stmt, compiler, instructions, i, changes,
                   passes, before, machine, input>>

NextEnc == ToBin

SpecEnc == InitEnc /\ [][NextEnc]_vars

\* C7: to_bin is decodable: no other instruction the compiler can emit, differing
\* in mnemonic or argument, encodes to the same 16-bit word.
C7_EncodingInjective ==
    (task = "to_bin" /\ phase = "output") =>
        \A other \in EmittedInstructions : other # input => to_bin(other) # output

-----------------------------------------------------------------------------
(* While loops written as top-level statements *)

MaxWhileBody == 2

WhilePrefixes ==
    {<<Assignment("x", NumericLiteral(0))>>,
     <<Assignment("x", NumericLiteral(0)), Assignment("y", NumericLiteral(1))>>,
     <<Assignment("x", NumericLiteral(0)), Assignment("y", NumericLiteral(1)),
       Assignment("z", BinaryExpr(Identifier("x"), "Minus", Identifier("y")))>>}

\* the operands a condition after the prefix can name
WhileOperands(prefix) ==
    {NumericLiteral(10)} \cup {Identifier(prefix[k].symbol) : k \in 1..(IF Len(prefix) < 2 THEN Len(prefix) ELSE 2)}

EqualityOperators == {"EqualTo", "NotEqual", "Greater", "GreaterEq", "Less", "LessEq"}

Increment == Assignment("x", BinaryExpr(Identifier("x"), "Plus", NumericLiteral(1)))

\* bodies without jumps, and one with a conditional whose own body emits nothing
WhileBodies ==
    {[k \in 1..n |-> Increment] : n \in 0..MaxWhileBody}
    \cup {<<Debug>>,
          <<Conditional(EqExpr(Identifier("x"), "EqualTo", NumericLiteral(10)), <<Pass>>,
                        <<>>, <<>>)>>}

WhileSuffixes == {<<>>, <<Assignment("x", NumericLiteral(0))>>}

WhilePrograms ==
    UNION {{prefix \o <<WhileLoop(EqExpr(l, op, r), body)>> \o suffix :
                l \in WhileOperands(prefix), r \in WhileOperands(prefix),
                op \in EqualityOperators, body \in WhileBodies, suffix \in WhileSuffixes} :
           prefix \in WhilePrefixes}

WhileExample ==
    <<Assignment("x", NumericLiteral(0)),
      WhileLoop(EqExpr(Identifier("x"), "NotEqual", NumericLiteral(10)), <<Increment>>)>>

InitWhile == InitCompile(WhilePrograms)

NextWhile == EvalStatement \/ GetInstructions \/ DiscPassEnd \/ ReplaceJumpMarks

SpecWhile == InitWhile /\ [][NextWhile]_vars

\* the tracked state after the first n instructions of the output
RECURSIVE TrackedAfter(_)
TrackedAfter(n) ==
    IF n = 0 THEN ComputerState ELSE execute(instructions[n], TrackedAfter(n - 1))

\* what a register holds when it holds the operand
Content(operand) ==
    IF operand.typ = "NumericLiteral" THEN Number(operand.value)
    ELSE Variable(MapGet(compiler.scopes[1].variables, operand.symbol))

\* the jump at 1-based position k is taken exactly when `left operator right` holds
\* of the operands the registers hold there: A, B hold left, right and the jump
\* tests the operator, or they hold right, left and it tests the mirrored operator
Compares(k, left, operator, right) ==
    \/ /\ TrackedAfter(k - 1).a = Content(left)
       /\ TrackedAfter(k - 1).b = Content(right)
       /\ instructions[k].variant = from_op(operator)
    \/ /\ TrackedAfter(k - 1).a = Content(right)
       /\ TrackedAfter(k - 1).b = Content(left)
       /\ instructions[k].variant = from_op(turnaround(operator))

TheWhile == ast[CHOOSE k \in 1..Len(ast) : ast[k].typ = "WhileLoop"]

JumpPositions == {k \in 1..Len(instructions) : IsJump(instructions[k])}

\* the loop's jumps are the first and the last jump of the output
OpeningJump == CHOOSE k \in JumpPositions : \A j \in JumpPositions : k <= j
ClosingJump == CHOOSE k \in JumpPositions : \A j \in JumpPositions : j <= k

StoresBetween(from, to) ==
    Cardinality({k \in (from + 1)..(to - 1) : instructions[k].variant = "SVA"})

\* C8: a top-level `while L op R body end` is lowered to an opening jump that
\* compares L and R with the negated operator and targets the index just past the
\* closing jump, then the body, then a closing jump that compares L and R with the
\* original operator and targets the index just after the opening jump; for
\* `x = 0; while x != 10 x = x + 1 end` these are JE and JNE.
C8_WhileSkeleton ==
    (task = "compile" /\ phase = "done") =>
        /\ Cardinality(JumpPositions) >= 2
        /\ instructions[OpeningJump].arg = ClosingJump
        /\ instructions[ClosingJump].arg = OpeningJump
        /\ Compares(OpeningJump, TheWhile.condition.left,
                    opposite(TheWhile.condition.operator), TheWhile.condition.right)
        /\ Compares(ClosingJump, TheWhile.condition.left,
                    TheWhile.condition.operator, TheWhile.condition.right)
        /\ StoresBetween(OpeningJump, ClosingJump) =
               Cardinality({k \in 1..Len(TheWhile.body) : TheWhile.body[k] = Increment})
        /\ (ast = WhileExample =>
               /\ instructions[OpeningJump].variant = "JE"
               /\ instructions[ClosingJump].variant = "JNE")

\* a linked loop whose opening comparison found its operands in swapped registers
C8_SwappedLoopLinked ==
    /\ task = "compile" /\ phase = "done"
    /\ TheWhile.body = <<Increment>>
    /\ TheWhile.condition.operator = "Less"
    /\ instructions[OpeningJump].variant = "JLE"
    /\ instructions[ClosingJump].arg = OpeningJump

-----------------------------------------------------------------------------
(* Assignments of constant expressions *)

MaxFold == 4

FoldOperators == {"Plus", "Mult"}

FoldLiteralExprs ==
    {BinaryExpr(NumericLiteral(a), op, NumericLiteral(b)) :
        a \in 1..MaxFold, op \in FoldOperators, b \in 1..MaxFold}

\* inline N = a op b; x = N op k      and      inline N = a op b; x = a op b
FoldPrograms ==
    {<<InlineDeclaration("N", e),
       Assignment("x", BinaryExpr(Identifier("N"), op, NumericLiteral(k)))>> :
        e \in FoldLiteralExprs, op \in FoldOperators, k \in 1..MaxFold}
    \cup {<<InlineDeclaration("N", e), Assignment("x", e)>> : e \in FoldLiteralExprs}

InitFold == InitCompile(FoldPrograms)

NextFold == EvalStatement \/ GetInstructions \/ DiscPassEnd \/ ReplaceJumpMarks

SpecFold == InitFold /\ [][NextFold]_vars

\* the shortest load of a constant into A
ConstantLoad(v) ==
    IF ToU16(v) \div 256 = 0 THEN <<Instruction_new("LAL", ToU16(v) % 256)>>
    ELSE <<Instruction_new("LAL", ToU16(v) % 256), Instruction_new("LAH", ToU16(v) \div 256)>>

\* C9: an assignment whose value is a binary expression over numeric literals and
\* inline identifiers compiles to the load of the folded constant followed by the
\* store, with no ALU instruction (`inline N = 4 + 1; x = N * 3` to LAL 15; SVA 0).
C9_ConstantsFolded ==
    (task = "compile" /\ phase = "done") =>
        instructions =
            ConstantLoad(SourceValue(ast[2].value,
                                     [n \in {"N"} |-> SourceValue(ast[1].value, <<>>)]))
            \o <<Instruction_new("SVA", 0)>>

-----------------------------------------------------------------------------
(* Loading a numeric literal into A *)

MaxMagnitude == 2

NumValues ==
    (-MaxMagnitude..MaxMagnitude)
    \cup {-32768, -32767, -257, -256, -255, -128, 5, 127, 128, 255, 256, 257, 32512, 32767}

PriorA == {Unknown, Variable(0)} \cup {Number(w) : w \in NumValues}

NumInputs == {[a |-> a, value |-> v] : a \in PriorA, v \in NumValues}

NumCompilers == {[Compiler_new EXCEPT !.scopes[1].state.a = a] : a \in PriorA}

InitNum ==
    \/ /\ InitPure("put_a_number", NumInputs, NumCompilers)
       /\ compiler.scopes[1].state.a = input.a
    \/ InitCompile({<<NumericLiteral(v)>> : v \in NumValues})

PutANumber ==
    /\ task = "put_a_number" /\ phase = "input"
    /\ compiler' = put_a_number_(compiler, input.value)
    /\ phase' = "output"
    /\ UNCHANGED <<overflow_checks, task, ast, next_stmt, instructions, i, changes, passes,
                   before, machine, input, output>>

NextNum == PutANumber \/ EvalStatement \/ GetInstructions \/ DiscPassEnd \/ ReplaceJumpMarks

SpecNum == InitNum /\ [][NextNum]_vars

LowByte(v) == v % 256
HighByte(v) == (v % 65536) \div 256

\* C10: loading the literal v into A emits nothing when the tracked A is Number(v)
\* already, and otherwise LAL with the low byte followed by LAH with the high byte
\* exactly when the high byte is not zero; afterwards the tracked A is Number(v),
\* for negative v too.  The program [NumericLiteral(5)] compiles to [LAL 5].
C10_LiteralLoad ==
    /\ (task = "put_a_number" /\ phase = "output") =>
          /\ Ok(compiler)
          /\ flatten_scope(compiler.scopes[1].instructions) =
                IF input.a = Number(input.value) THEN <<>>
                ELSE IF HighByte(input.value) = 0
                THEN <<Instruction_new("LAL", LowByte(input.value))>>
                ELSE <<Instruction_new("LAL", LowByte(input.value)),
                       Instruction_new("LAH", HighByte(input.value))>>
          /\ compiler.scopes[1].state.a = Number(input.value)
    /\ (task = "compile" /\ phase = "done" /\ ast = <<NumericLiteral(5)>>) =>
          instructions = <<Instruction_new("LAL", 5)>>

\* a negative literal has been loaded over another number with both instructions
C10_NegativeLoaded ==
    /\ task = "put_a_number" /\ phase = "output"
    /\ input.value < 0 /\ input.a = Number(5)
    /\ Len(compiler.scopes[1].instructions) = 2
    /\ compiler.scopes[1].state.a = Number(input.value)

-----------------------------------------------------------------------------
(* Calls of the io module *)

MaxSlot == 8

IoValues == {NumericLiteral(1), Identifier("x")}

ConstantSlots == {NumericLiteral(v) : v \in 0..MaxSlot} \cup {Identifier("K")}

RuntimeSlots ==
    {Identifier("x"), BinaryExpr(Identifier("x"), "Plus", NumericLiteral(1))}

IoCalls ==
    {Call(Method("io", "write"), <<v, s>>) : v \in IoValues,
                                             s \in ConstantSlots \cup RuntimeSlots}
    \cup {Call(Method("io", "read"), <<s>>) : s \in ConstantSlots \cup RuntimeSlots}

\* use io; inline K = 1; x = 1; the call
IoPrograms ==
    {<<Use("io"), InlineDeclaration("K", NumericLiteral(1)),
       Assignment("x", NumericLiteral(1)), s>> : s \in IoCalls}

InitIo == InitCompile(IoPrograms)

NextIo == EvalStatement \/ GetInstructions \/ DiscPassEnd \/ ReplaceJumpMarks

SpecIo == InitIo /\ [][NextIo]_vars

\* the last lowered statement is io.write with an out-slot known only at run time
WroteToRuntimeSlot ==
    /\ task = "compile" /\ next_stmt = 5
    /\ ast[4].function.property = "write"
    /\ ast[4].args[2] \in RuntimeSlots

\* C11: io.write(value, slot) with a slot that is not a compile-time constant fails
\* with CompileTimeArg("Outslot") and emits no instruction for the call.
C11_RuntimeSlotRejected ==
    WroteToRuntimeSlot =>
        /\ phase = "error"
        /\ compiler.err = [typ |-> "CompileTimeArg", arg |-> "Outslot"]
        /\ compiler.scopes[1].instructions = before.instructions

-----------------------------------------------------------------------------
(* Programs that load the list module, possibly more than once *)

MaxListStmts == 4

ListAdd(v) == Call(Method("list", "add"), <<v>>)

ListStatements ==
    {Use("list"), Use("ram"), VarDeclaration("x"), Assignment("y", NumericLiteral(1)),
     ListAdd(NumericLiteral(1))}

ListPrograms == UNION {[1..n -> ListStatements] : n \in 1..MaxListStmts}

InitList == InitCompile(ListPrograms)

NextList == EvalStatement \/ GetInstructions \/ DiscPassEnd \/ ReplaceJumpMarks

SpecList == InitList /\ [][NextList]_vars

\* the statement lowered last is `use list`
LoweredUseList ==
    /\ task = "compile" /\ phase \in {"lower", "error"} /\ next_stmt > 1
    /\ ast[next_stmt - 1] = Use("list")

UsedListBefore == \E j \in 1..(next_stmt - 2) : ast[j] = Use("list")

-----------------------------------------------------------------------------
(* `use` at the root and inside the bodies of conditionals and loops *)

UseNames == Modules \cup {"nosuch"}

UseCondition == EqExpr(Identifier("x"), "EqualTo", NumericLiteral(1))

\* the statement `use m` inside each kind of body, one and two levels deep
UseBlocks(m) ==
    {Conditional(UseCondition, <<Use(m)>>, <<>>, <<>>),
     Conditional(UseCondition, <<Pass>>, <<<<UseCondition, <<Use(m)>>>>>>, <<>>),
     Conditional(UseCondition, <<Pass>>, <<>>, <<<<Use(m)>>>>),
     WhileLoop(UseCondition, <<Use(m)>>),
     EndlessLoop(<<Use(m)>>),
     WhileLoop(UseCondition, <<Debug, Conditional(UseCondition, <<Use(m)>>, <<>>, <<>>)>>)}

UsePrefixes ==
    {<<Assignment("x", NumericLiteral(0))>>}
    \cup {<<Assignment("x", NumericLiteral(0)), Use(m)>> : m \in {"io", "list"}}

\* the prefix, a `use` at the root or in a body, and a call of the module
UsePrograms ==
    UNION {{prefix \o <<s, Call(Method(m, "read"), <<NumericLiteral(0)>>)>> :
                prefix \in UsePrefixes, s \in {Use(m)} \cup UseBlocks(m)} : m \in UseNames}

InitUse == InitCompile(UsePrograms)

NextUse == EvalStatement \/ GetInstructions \/ DiscPassEnd \/ ReplaceJumpMarks

SpecUse == InitUse /\ [][NextUse]_vars

\* the statement lowered last is the one before the final call
LoweredUseSite ==
    /\ task = "compile" /\ phase \in {"lower", "error"}
    /\ next_stmt = Len(ast)

\* the module the program's last statement calls, which is the one its `use` names
UseTarget == ast[Len(ast)].function.object.symbol

\* a call of the module, were it lowered next, fails with UnknownModule
CallStillUnknown ==
    eval_call_([compiler EXCEPT !.err = NoError], ast[Len(ast)].function,
               ast[Len(ast)].args).err = [typ |-> "UnknownModule", arg |-> UseTarget]

\* C13: `use` inside the body of a conditional or loop fails with
\* UseOutsideGlobalScope whatever the module; `use` at the root of a module that
\* is not registered fails with UnknownModule; both leave the set of loaded
\* modules unchanged, so that a call of the module still fails with UnknownModule.
C13_UseRejected ==
    LoweredUseSite =>
        /\ (ast[next_stmt - 1].typ \in {"Conditional", "WhileLoop", "EndlessLoop"}) =>
              /\ phase = "error"
              /\ compiler.err.typ = "UseOutsideGlobalScope"
              /\ compiler.modules = before.modules
              /\ (UseTarget \notin before.modules => CallStillUnknown)
        /\ (ast[next_stmt - 1].typ = "Use" /\ ~exist(UseTarget)) =>
              /\ phase = "error"
              /\ compiler.err = [typ |-> "UnknownModule", arg |-> UseTarget]
              /\ compiler.modules = before.modules
              /\ CallStillUnknown

\* `use ram` in a loop body has been rejected after another module was loaded
C13_NestedUseRejected ==
    /\ LoweredUseSite
    /\ ast[next_stmt - 1].typ = "WhileLoop"
    /\ UseTarget = "ram"
    /\ compiler.err.typ = "UseOutsideGlobalScope"
    /\ before.modules = {"list"}

-----------------------------------------------------------------------------
(* Every expression variant, as a statement and where a value is expected *)

ValueCondition == EqExpr(Identifier("x"), "Less", NumericLiteral(1))

ExpressionVariants ==
    {NumericLiteral(1), Identifier("x"), Identifier("nosuch"),
     BinaryExpr(Identifier("x"), "Plus", NumericLiteral(1)),
     Assignment("y", NumericLiteral(1)),
     ValueCondition,
     Member(Identifier("io"), "slot"),
     Call(Method("io", "read"), <<NumericLiteral(0)>>),
     Use("ram"), VarDeclaration("y"), InlineDeclaration("K", NumericLiteral(1)),
     Pass, Debug,
     EndlessLoop(<<Pass>>),
     WhileLoop(ValueCondition, <<Pass>>),
     Conditional(ValueCondition, <<Pass>>, <<>>, <<>>)}

\* use io; x = 1; then the variant as a statement, as the value of an assignment,
\* as an operand, or as the argument of a call
VariantPrograms ==
    {<<Use("io"), Assignment("x", NumericLiteral(1)), s>> :
        s \in ExpressionVariants
              \cup {Assignment("z", e) : e \in ExpressionVariants}
              \cup {BinaryExpr(e, "Plus", NumericLiteral(1)) : e \in ExpressionVariants}
              \cup {Call(Method("io", "write"), <<e, NumericLiteral(0)>>) :
                       e \in ExpressionVariants}}

InitTotal == InitCompile(VariantPrograms)

NextTotal == EvalStatement \/ GetInstructions \/ DiscPassEnd \/ ReplaceJumpMarks

SpecTotal == InitTotal /\ [][NextTotal]_vars

\* C14: whatever expression variants the AST is built from, compile_program returns
\* a complete instruction list or the first error; it never aborts.
C14_NeverAborts == task = "compile" => phase # "panic"

-----------------------------------------------------------------------------
(* The two loops over a HashMap, run in every iteration order, and a second session *)

MaxDetSlot == 3
MaxMarks == 3

Perms(S) == {f \in [1..Cardinality(S) -> S] : \A a \in S : \E k \in DOMAIN f : f[k] = a}

\* pop_scope: `for i in scope.variables { self.variables[slot] = false }` with the
\* entries of the map visited in the given order
RECURSIVE pop_scope_iter(_, _)
pop_scope_iter(variables, order) ==
    IF order = <<>> THEN variables
    ELSE pop_scope_iter([variables EXCEPT ![order[1][2]] = FALSE], Tail(order))

\* a loop that leaves at the first mark below `from`
RECURSIVE move_jump_marks_until_below(_, _, _, _)
move_jump_marks_until_below(jump_marks, order, from, by) ==
    IF order = <<>> \/ jump_marks[order[1]] < from
    THEN [jump_marks |-> jump_marks, panic |-> FALSE]
    ELSE IF overflow_checks /\ jump_marks[order[1]] + by > 255
    THEN [jump_marks |-> jump_marks, panic |-> TRUE]
    ELSE move_jump_marks_until_below([jump_marks EXCEPT ![order[1]] = (@ + by) % 256],
                                     Tail(order), from, by)

\* move_jump_marks: `for (_, value) in jump_marks.iter_mut()` with the marks visited
\* in the given order; the first overflowing `+=` panics with overflow checks
RECURSIVE move_jump_marks_iter(_, _, _, _)
move_jump_marks_iter(jump_marks, order, from, by) ==
    IF order = <<>> THEN [jump_marks |-> jump_marks, panic |-> FALSE]
    ELSE IF jump_marks[order[1]] < from
    THEN move_jump_marks_iter(jump_marks, Tail(order), from, by)
    ELSE IF overflow_checks /\ jump_marks[order[1]] + by > 255
    THEN [jump_marks |-> jump_marks, panic |-> TRUE]
    ELSE move_jump_marks_iter([jump_marks EXCEPT ![order[1]] = (@ + by) % 256],
                              Tail(order), from, by)

DetNames == {"x", "y", "z"}

\* the name maps a scope can hold: every name has one slot, no slot has two names
NameMaps ==
    {m \in SUBSET (DetNames \X (0..MaxDetSlot)) :
        \A p \in m : \A q \in m : (p[1] = q[1] \/ p[2] = q[2]) => p = q}

\* compilers about to leave a nested scope that declared the names of the map
PopCompilers ==
    UNION {{[Compiler_new EXCEPT
                !.scopes = Append(@, [Scope_with_state(ComputerState) EXCEPT
                                         !.variables = m]),
                !.variables = [s \in 0..(VAR_SLOTS - 1) |-> s \in occ]] :
              occ \in {o \in SUBSET (0..MaxDetSlot) : \A p \in m : p[2] \in o}} :
           m \in NameMaps}

MarkValues == {0, 63, 64, 254, 255}

MoveInputs ==
    {[jump_marks |-> t, from |-> f, by |-> 1] :
        t \in UNION {[1..n -> MarkValues] : n \in 1..MaxMarks}, f \in {0, 64, 255}}

DetBody ==
    <<Assignment("y", NumericLiteral(1)), Assignment("z", NumericLiteral(2)),
      Assignment("x", BinaryExpr(Identifier("y"), "Plus", Identifier("z")))>>

DetPrograms ==
    {<<Assignment("x", NumericLiteral(0)), s, Assignment("w", Identifier("x"))>> :
        s \in {WhileLoop(UseCondition, DetBody), EndlessLoop(DetBody),
               Conditional(UseCondition, DetBody, <<<<UseCondition, DetBody>>>>, <<DetBody>>)}}

InitDet ==
    \/ InitPure("pop_scope", {<<>>}, PopCompilers)
    \/ InitPure("move_jump_marks", MoveInputs, {Compiler_new})
    \/ InitCompile(DetPrograms)

PopScopeInOrder ==
    /\ task = "pop_scope" /\ phase = "input"
    /\ \E order \in Perms(compiler.scopes[2].variables) :
          output' = pop_scope_iter(compiler.variables, order)
    /\ phase' = "output"
    /\ UNCHANGED <<overflow_checks, task, ast, next_stmt, compiler, instructions, i, changes,
                   passes, before, machine, input>>

MoveJumpMarksInOrder ==
    /\ task = "move_jump_marks" /\ phase = "input"
    /\ \E order \in Perms(DOMAIN input.jump_marks) :
          output' = move_jump_marks_iter(input.jump_marks, order, input.from, input.by)
    /\ phase' = "output"
    /\ UNCHANGED <<overflow_checks, task, ast, next_stmt, compiler, instructions, i, changes,
                   passes, before, machine, input>>

\* a second, fresh session lowers the same AST after the first has finished
SecondSession ==
    /\ task = "compile" /\ phase = "done" /\ output = <<>>
    /\ output' = eval_body_(Compiler_new, ast)
    /\ UNCHANGED <<overflow_checks, task, ast, next_stmt, compiler, phase, instructions, i,
                   changes, passes, before, machine, input>>

NextDet ==
    \/ PopScopeInOrder \/ MoveJumpMarksInOrder
    \/ EvalStatement \/ GetInstructions \/ DiscPassEnd \/ ReplaceJumpMarks \/ SecondSession

SpecDet == InitDet /\ [][NextDet]_vars

\* C15: two sessions on the same AST give the same result: the arena after a scope
\* is left and the mark table after a shift are the same in whatever order the
\* HashMap hands out its entries, and a second session lowers the AST to the same
\* code, marks and error as the first.
C15_Deterministic ==
    /\ (task = "pop_scope" /\ phase = "output") => output = pop_scope(compiler).variables
    /\ (task = "move_jump_marks" /\ phase = "output") =>
          /\ output.panic = move_jump_marks_panics(input.jump_marks, input.from, input.by)
          /\ ~output.panic =>
                output.jump_marks = move_jump_marks(input.jump_marks, input.from, input.by)
    /\ (task = "compile" /\ phase = "done" /\ output # <<>>) =>
          /\ output.scopes = compiler.scopes
          /\ output.jump_marks = compiler.jump_marks
          /\ output.variables = compiler.variables
          /\ output.err = compiler.err

\* three marks on both sides of `from` have been shifted
C15_MarksShifted ==
    /\ task = "move_jump_marks" /\ phase = "output"
    /\ input.jump_marks = <<63, 64, 0>> /\ input.from = 64
    /\ output.jump_marks = <<63, 65, 0>>

\* C16: `use list` takes the highest-numbered free arena slot for the list pointer
\* (slot 31 while the upper arena is free) and reserves it: the slot is marked
\* occupied and no named variable declared afterwards is given it.
C16_PointerReserved ==
    (task = "compile" /\ is_initialized(compiler)) =>
        /\ pointer_of(compiler).v = VAR_SLOTS - 1
        /\ compiler.variables[pointer_of(compiler).v]
        /\ \A p \in compiler.scopes[1].variables : p[2] # pointer_of(compiler).v

-----------------------------------------------------------------------------
(* Consecutive list.add calls, run on the concrete machine *)

MaxAdds == 3

AddStatements == {ListAdd(NumericLiteral(1)), ListAdd(NumericLiteral(7)), Debug}

\* use list, then up to MaxAdds statements
AddPrograms ==
    {<<Use("list")>> \o p : p \in UNION {[1..n -> AddStatements] : n \in 1..MaxAdds}}

InitAdd == InitCompile(AddPrograms)

NextAdd == EvalStatement \/ GetInstructions \/ DiscPassEnd \/ ReplaceJumpMarks \/ Exec

SpecAdd == InitAdd /\ [][NextAdd]_vars

PointerValue == machine.slots[pointer_of(compiler).v]

AddsIn(program) == Cardinality({k \in 1..Len(program) : program[k].typ = "Call"})

\* C17: every list.add runs its RC and its RW with B equal to the current value of
\* the list pointer, and n calls leave the pointer n greater than before.
C17_AddAdvancesPointer ==
    (task = "compile" /\ phase = "done") =>
        /\ (machine.pc < Len(instructions)
            /\ instructions[machine.pc + 1].variant \in {"RC", "RW"}) =>
               machine.b = PointerValue
        /\ Halted => PointerValue = AddsIn(ast)

-----------------------------------------------------------------------------
(* ram.read, run on the concrete machine *)

MaxReads == 2

\* addresses on pages 0, 1 and 2, and the variable x = 20
ReadAddresses == {NumericLiteral(v) : v \in {0, 5, 20, 40}} \cup {Identifier("x")}

RamRead(address) == Call(Method("ram", "read"), <<address>>)

\* use ram; x = 20; then up to MaxReads reads
ReadPrograms ==
    {<<Use("ram"), Assignment("x", NumericLiteral(20))>> \o p :
        p \in UNION {[1..n -> {RamRead(a) : a \in ReadAddresses}] : n \in 1..MaxReads}}

InitRead == InitCompile(ReadPrograms)

NextRead == EvalStatement \/ GetInstructions \/ DiscPassEnd \/ ReplaceJumpMarks \/ Exec

SpecRead == InitRead /\ [][NextRead]_vars

\* the machine is about to run an instruction with this opcode
About(variant) ==
    /\ task = "compile" /\ phase = "done"
    /\ machine.pc < Len(instructions)
    /\ instructions[machine.pc + 1].variant = variant

\* the address argument of the read whose RR has not run yet
CurrentAddress ==
    ast[3 + Cardinality({k \in 1..machine.pc : instructions[k].variant = "RR"})].args[1]

CurrentAddressValue ==
    IF CurrentAddress.typ = "NumericLiteral" THEN CurrentAddress.value
    ELSE machine.slots[MapGet(compiler.scopes[1].variables, CurrentAddress.symbol)]

\* C18: in ram.read(addr) the address is in B before any RC of the call runs, so
\* the RC runs with B = addr and the page in effect at the RR is addr / 16.
C18_PageOfAddress ==
    /\ About("RC") => machine.b = CurrentAddressValue
    /\ About("RR") => /\ machine.b = CurrentAddressValue
                      /\ machine.page = CurrentAddressValue \div 16

-----------------------------------------------------------------------------
(* Loops and conditionals nested in the bodies of loops and conditionals *)

MaxNestPad == 2

NestInner ==
    {EndlessLoop(<<Debug>>),
     WhileLoop(UseCondition, <<Debug>>),
     Conditional(UseCondition, <<Debug>>, <<>>, <<>>),
     Conditional(UseCondition, <<Debug>>, <<<<ValueCondition, <<Debug>>>>>>, <<<<Debug>>>>)}

NestOuter(body) ==
    {EndlessLoop(body),
     WhileLoop(ValueCondition, body),
     Conditional(ValueCondition, body, <<>>, <<>>),
     Conditional(ValueCondition, <<Pass>>, <<>>, <<body>>)}

\* x = 0, then the construct at the root or, after some statements, in a body
NestPrograms ==
    {<<Assignment("x", NumericLiteral(0)), s>> :
        s \in NestInner
              \cup UNION {NestOuter(Fill(n) \o <<inner>>) :
                             inner \in NestInner, n \in 0..MaxNestPad}}

InitNest == InitCompile(NestPrograms)

NextNest == EvalStatement \/ GetInstructions \/ DiscPassEnd \/ ReplaceJumpMarks

SpecNest == InitNest /\ [][NextNest]_vars

\* C19: a mark bound to the current position has as its target the number of
\* instructions emitted so far in the whole program, also when its construct is
\* nested in the body of another loop or conditional.
C19_MarksAtCurrentPosition ==
    (task = "compile" /\ phase = "lower") =>
        \A p \in compiler.bound : compiler.jump_marks[p[1] + 1] = p[2]
-----------------------------------------------------------------------------
(* The enclosing scope's tracked registers after a conditional or a while loop *)

MaxAfterBody == 2

\* a near jump is taken when its relation holds of A and B; JMP always
Taken(variant, a, b) ==
    CASE variant = "JMP" -> TRUE
      [] variant = "JE"  -> a = b
      [] variant = "JNE" -> a # b
      [] variant = "JG"  -> a > b
      [] variant = "JGE" -> a >= b
      [] variant = "JL"  -> a < b
      [] variant = "JLE" -> a <= b
      [] OTHER -> FALSE

\* the concrete machine at a near jump of the linked output
ExecJump ==
    /\ task = "compile" /\ phase = "done"
    /\ machine.pc < Len(instructions)
    /\ is_jump(instructions[machine.pc + 1].variant)
    /\ machine' = [machine EXCEPT !.pc =
                       IF Taken(instructions[machine.pc + 1].variant, machine.a, machine.b)
                       THEN arg_or_0(instructions[machine.pc + 1])
                       ELSE machine.pc + 1]
    /\ UNCHANGED <<overflow_checks, task, ast, next_stmt, compiler, phase, instructions, i,
                   changes, passes, before, input, output>>

AfterStatements == {Pass, Debug, Increment, Assignment("z", NumericLiteral(5))}

AfterBodies ==
    UNION {[1..n -> AfterStatements] : n \in 1..MaxAfterBody}

\* `x = v`, then one conditional or while loop over x as the last statement
AfterConstructs ==
    {Conditional(UseCondition, body, <<>>, <<>>) : body \in AfterBodies}
    \cup {Conditional(UseCondition, <<Pass>>, <<>>, <<body>>) : body \in AfterBodies}
    \cup {Conditional(UseCondition, <<Pass>>, <<<<ValueCondition, body>>>>, <<>>) :
              body \in AfterBodies}
    \cup {WhileLoop(ValueCondition, body) : body \in AfterBodies}

AfterPrograms ==
    {<<Assignment("x", NumericLiteral(v)), s>> : v \in 0..1, s \in AfterConstructs}

InitAfter == InitCompile(AfterPrograms)

NextAfter ==
    EvalStatement \/ GetInstructions \/ DiscPassEnd \/ ReplaceJumpMarks \/ Exec \/ ExecJump

SpecAfter == InitAfter /\ [][NextAfter]_vars

\* the machine's register holds what the tracked state says of it
RegisterHolds(contents, value) ==
    CASE contents.k = "Number"   -> value = contents.v
      [] contents.k = "Variable" -> value = machine.slots[contents.v]
      [] OTHER -> TRUE

\* C20: when the machine reaches the point after a conditional or a while loop, on
\* whichever path, registers A and B hold what the enclosing scope's tracked state
\* says they hold there.
C20_EnclosingStateHolds ==
    (Halted /\ compiler.err = NoError) =>
        /\ RegisterHolds(compiler.scopes[1].state.a, machine.a)
        /\ RegisterHolds(compiler.scopes[1].state.b, machine.b)
-----------------------------------------------------------------------------
(* The tracked state at the start of a while-loop body *)

MaxEntryBody == 2

EntryStatements ==
    {Debug, Increment, Assignment("y", Identifier("x")),
     Assignment("z", BinaryExpr(NumericLiteral(5), "Minus", Identifier("x")))}

EntryBodies == UNION {[1..n -> EntryStatements] : n \in 1..MaxEntryBody}

EntryConditions ==
    {EqExpr(Identifier("x"), "Less", NumericLiteral(2)),
     EqExpr(NumericLiteral(2), "Greater", Identifier("x")),
     EqExpr(Identifier("x"), "NotEqual", NumericLiteral(2))}

\* `x = v`, then one while loop over x as the last statement
EntryPrograms ==
    {<<Assignment("x", NumericLiteral(v)), WhileLoop(cond, body)>> :
        v \in 0..2, cond \in EntryConditions, body \in EntryBodies}

InitEntry == InitCompile(EntryPrograms)

NextEntry ==
    EvalStatement \/ GetInstructions \/ DiscPassEnd \/ ReplaceJumpMarks \/ Exec \/ ExecJump

SpecEntry == InitEntry /\ [][NextEntry]_vars

\* the machine is about to run the first instruction of the loop body (start_id is
\* the first mark of the program)
AtBodyStart ==
    /\ task = "compile" /\ phase = "done" /\ compiler.err = NoError
    /\ machine.pc = compiler.jump_marks[1]
    /\ machine.pc < Len(instructions)

\* the state the body scope was pushed with: self.last_scope().state after the
\* opening comparison, which the root scope still has when the loop is its last
\* statement
BodyEntryState == compiler.scopes[1].state

\* C21: whenever the machine reaches the first instruction of a while-loop body,
\* on first entry or through the closing comparison's backward jump, registers A
\* and B hold what the tracked state the body was lowered with says they hold.
C21_BodyEntryStateHolds ==
    AtBodyStart =>
        /\ RegisterHolds(BodyEntryState.a, machine.a)
        /\ RegisterHolds(BodyEntryState.b, machine.b)
-----------------------------------------------------------------------------
(* The tracked state at the start of a forever-loop body *)

MaxLoopPre == 2

LoopPreStatements ==
    {RamRead(NumericLiteral(5)), RamRead(NumericLiteral(20)),
     Assignment("y", Identifier("x"))}

\* one statement whose lowering starts with a RAM access or a register load
LoopFirstStatements ==
    {RamRead(NumericLiteral(v)) : v \in {0, 5, 20}}
    \cup {Assignment("z", Identifier("x")),
          Assignment("z", BinaryExpr(NumericLiteral(1), "Minus", Identifier("x")))}

\* use ram; x = 1; up to MaxLoopPre statements; loop <one statement> end
LoopPrograms ==
    {<<Use("ram"), Assignment("x", NumericLiteral(1))>> \o pre \o <<EndlessLoop(<<s>>)>> :
        pre \in UNION {[1..n -> LoopPreStatements] : n \in 0..MaxLoopPre},
        s \in LoopFirstStatements}

InitLoop == InitCompile(LoopPrograms)

NextLoop == EvalStatement \/ GetInstructions \/ DiscPassEnd \/ ReplaceJumpMarks

SpecLoop == InitLoop /\ [][NextLoop]_vars

\* the linked body of the loop: from the loop's mark up to its closing JMP
LoopBody ==
    SubSeq(instructions, compiler.jump_marks[1] + 1, Len(instructions) - 1)

LoopStatement == ast[Len(ast)].body[1]

OpcodesOf(list) == {list[k].variant : k \in 1..Len(list)}

\* C22: the body of a forever loop is lowered from a state in which A, B and the
\* RAM page are unknown: a RAM read in the body has its RC, a read of x into A or
\* B has its LA or LB.
C22_LoopBodyLoadsInFull ==
    (task = "compile" /\ phase = "done" /\ compiler.err = NoError) =>
        /\ LoopStatement.typ = "Call" => "RC" \in OpcodesOf(LoopBody)
        /\ LoopStatement.typ = "Assignment" =>
               {"LA", "LB"} \cap OpcodesOf(LoopBody) # {}
-----------------------------------------------------------------------------
(* Comparisons, run on the concrete machine *)

MaxCmpValue == 2

CmpOperators == {"EqualTo", "NotEqual", "Greater", "GreaterEq", "Less", "LessEq"}

\* simple operands (a variable, a literal) and complex ones (a sum, a difference)
CmpOperands ==
    {Identifier("x"), Identifier("y"), NumericLiteral(1),
     BinaryExpr(Identifier("x"), "Plus", NumericLiteral(1)),
     BinaryExpr(Identifier("y"), "Minus", Identifier("x"))}

\* statements that leave different contents in A and B before the comparison
CmpPrefixes ==
    {<<>>,
     <<Assignment("z", BinaryExpr(Identifier("x"), "Minus", Identifier("y")))>>,
     <<Assignment("z", BinaryExpr(Identifier("y"), "Minus", Identifier("x")))>>}

\* a body that changes nothing, and one that changes x and leaves A and B holding
\* variables it has not assigned since
CmpBodies ==
    {<<Pass>>,
     <<Assignment("x", Identifier("y")),
       Assignment("z", BinaryExpr(Identifier("y"), "Minus", Identifier("y")))>>}

\* x = v; y = 1; <prefix>; while L op R <body> end
CmpPrograms ==
    {<<Assignment("x", NumericLiteral(v)), Assignment("y", NumericLiteral(1))>> \o pre
        \o <<WhileLoop(EqExpr(l, op, r), body)>> :
        v \in 0..MaxCmpValue, pre \in CmpPrefixes, l \in CmpOperands, r \in CmpOperands,
        op \in CmpOperators, body \in CmpBodies}

InitCmp == InitCompile(CmpPrograms)

NextCmp ==
    EvalStatement \/ GetInstructions \/ DiscPassEnd \/ ReplaceJumpMarks \/ Exec \/ ExecJump

SpecCmp == InitCmp /\ [][NextCmp]_vars

\* whether `l op r` holds
Relation(op, l, r) ==
    CASE op = "EqualTo"   -> l = r
      [] op = "NotEqual"  -> l # r
      [] op = "Greater"   -> l > r
      [] op = "GreaterEq" -> l >= r
      [] op = "Less"      -> l < r
      [] op = "LessEq"    -> l <= r

\* the machine is about to run a jump of the program's while loop
AtJump ==
    /\ task = "compile" /\ phase = "done" /\ compiler.err = NoError
    /\ machine.pc < Len(instructions)
    /\ is_jump(instructions[machine.pc + 1].variant)

TheJump == instructions[machine.pc + 1]

\* the opening comparison's jump is the first jump of the output
AtOpeningJump == AtJump /\ \A k \in 1..machine.pc : ~is_jump(instructions[k].variant)

TheCondition == ast[Len(ast)].condition

\* the variables' values on the machine
MachineEnv ==
    [n \in {"x", "y", "z"} |->
        IF MapHas(compiler.scopes[1].variables, n)
        THEN machine.slots[MapGet(compiler.scopes[1].variables, n)] ELSE 0]

ConditionHolds ==
    Relation(TheCondition.operator, SourceValue(TheCondition.left, MachineEnv),
             SourceValue(TheCondition.right, MachineEnv))

-----------------------------------------------------------------------------
(* Subtraction in the four operand shapes, run on the concrete machine *)

MaxSubValue == 2

\* operands can_put_into_a accepts, and operands it does not
SubSimpleLefts ==
    {Identifier("x"), NumericLiteral(1), Assignment("y", NumericLiteral(2))}

SubComplexLefts ==
    {BinaryExpr(Identifier("x"), "Plus", NumericLiteral(1)),
     Assignment("y", BinaryExpr(Identifier("x"), "Plus", NumericLiteral(1)))}

\* operands can_put_into_b accepts, and operands it does not
SubSimpleRights == {Identifier("x"), NumericLiteral(1), NumericLiteral(3)}

SubComplexRights ==
    {Assignment("w", NumericLiteral(2)),
     BinaryExpr(Identifier("x"), "Plus", NumericLiteral(2)),
     Assignment("w", BinaryExpr(Identifier("x"), "Plus", NumericLiteral(2)))}

\* statements that leave different contents in A and B before the subtraction
SubPrefixes ==
    {<<>>,
     <<Assignment("q", BinaryExpr(NumericLiteral(1), "Minus", Identifier("x")))>>,
     <<Assignment("q", BinaryExpr(Identifier("x"), "Minus", NumericLiteral(1)))>>}

\* x = v; <prefix>; z = L - R
SubPrograms ==
    {<<Assignment("x", NumericLiteral(v))>> \o pre
        \o <<Assignment("z", BinaryExpr(l, "Minus", r))>> :
        v \in 0..MaxSubValue, pre \in SubPrefixes,
        l \in SubSimpleLefts \cup SubComplexLefts,
        r \in SubSimpleRights \cup SubComplexRights}

InitSub == InitCompile(SubPrograms)

NextSub == EvalStatement \/ GetInstructions \/ DiscPassEnd \/ ReplaceJumpMarks \/ Exec

SpecSub == InitSub /\ [][NextSub]_vars

TheDifference == ast[Len(ast)].value

\* the value of an operand: of an assignment, the value it assigns
OperandValue(operand) ==
    IF operand.typ = "Assignment" THEN SourceValue(operand.value, MachineEnv)
    ELSE SourceValue(operand, MachineEnv)

\* the SUB of the last statement is the last SUB of the output
AtTheSub ==
    /\ About("SUB")
    /\ \A k \in (machine.pc + 2)..Len(instructions) : instructions[k].variant # "SUB"

-----------------------------------------------------------------------------
(* if / elif / else chains, run on the concrete machine *)

MaxElifs == 2
MaxChainValue == 2

ChainConditions ==
    {EqExpr(Identifier("x"), "EqualTo", NumericLiteral(0)),
     EqExpr(Identifier("x"), "Less", NumericLiteral(2)),
     EqExpr(Identifier("x"), "NotEqual", NumericLiteral(1))}

\* the body of branch k adds 2^(k-1) to r, so r records which bodies ran, and
\* sets x to 0, which makes two of the three conditions true afterwards
ChainBody(k) ==
    <<Assignment("r", BinaryExpr(Identifier("r"), "Plus", NumericLiteral(Pow2(k - 1)))),
      Assignment("x", NumericLiteral(0))>>

ElseWeight == Pow2(MaxElifs + 1)

ElseBody ==
    <<Assignment("r", BinaryExpr(Identifier("r"), "Plus", NumericLiteral(ElseWeight)))>>

Chain(conds, has_else) ==
    Conditional(conds[1], ChainBody(1),
                [k \in 1..(Len(conds) - 1) |-> <<conds[k + 1], ChainBody(k + 1)>>],
                IF has_else THEN <<ElseBody>> ELSE <<>>)

\* x = v; r = 0; one chain as the last statement
ChainPrograms ==
    {<<Assignment("x", NumericLiteral(v)), Assignment("r", NumericLiteral(0)),
       Chain(conds, has_else)>> :
        v \in 0..MaxChainValue,
        conds \in UNION {[1..n -> ChainConditions] : n \in 1..(MaxElifs + 1)},
        has_else \in BOOLEAN}

InitChain == InitCompile(ChainPrograms)

NextChain ==
    EvalStatement \/ GetInstructions \/ DiscPassEnd \/ ReplaceJumpMarks \/ Exec \/ ExecJump

SpecChain == InitChain /\ [][NextChain]_vars

TheChain == ast[Len(ast)]

HasElse == TheChain.alternate # <<>>

Branches == 1 + Len(TheChain.paths)

\* 1-based positions of the skip jumps and of the JMPs, in order
SkipJumps ==
    SelectSeq([k \in 1..Len(instructions) |-> k],
              LAMBDA k : is_jump(instructions[k].variant) /\ instructions[k].variant # "JMP")

EndJumps ==
    {k \in 1..Len(instructions) : instructions[k].variant = "JMP"}

\* branch n is followed by a later elif branch or by the else body
Followed(n) == n < Branches \/ HasElse

\* the sets of branch bodies of which r can be the sum: none, or one
NoneOrOne == {0, ElseWeight} \cup {Pow2(k - 1) : k \in 1..(MaxElifs + 1)}

\* the skip jump of branch n resolves to this 0-based index, so the last
\* instruction of the branch's body is at this 1-based position
BodyEnd(n) == instructions[SkipJumps[n]].arg

\* C25: in the linked output of a top-level chain every branch has one skip jump,
\* which resolves to the index after the branch's body; the body ends with JMP
\* exactly when a branch or an else follows it, and there is no other JMP; every
\* JMP resolves to the index after the chain; when the output has run, at most
\* one body has run, and exactly one with an else.
C25_ChainShapeAndRun ==
    (task = "compile" /\ phase = "done" /\ compiler.err = NoError) =>
        /\ Len(SkipJumps) = Branches
        /\ \A n \in 1..Len(SkipJumps) :
              /\ BodyEnd(n) > SkipJumps[n] /\ BodyEnd(n) <= Len(instructions)
              /\ (instructions[BodyEnd(n)].variant = "JMP") <=> Followed(n)
              /\ IF n < Len(SkipJumps) THEN BodyEnd(n) < SkipJumps[n + 1]
                 ELSE HasElse \/ BodyEnd(n) = Len(instructions)
        /\ EndJumps = {BodyEnd(n) : n \in {m \in 1..Len(SkipJumps) : Followed(m)}}
        /\ \A k \in EndJumps : instructions[k].arg = Len(instructions)
        /\ Halted =>
              LET r == machine.slots[MapGet(compiler.scopes[1].variables, "r")]
              IN r \in NoneOrOne /\ (HasElse => r # 0)

\* the second elif body was the one that ran, and the chain has an else
C25_SecondElifRan ==
    /\ Halted /\ compiler.err = NoError /\ HasElse /\ Branches = 3
    /\ machine.slots[MapGet(compiler.scopes[1].variables, "r")] = Pow2(2)
-----------------------------------------------------------------------------
(* The variable arena under declarations, temporaries and scopes *)

MaxSlotOps == 5
MaxDepth == 3
MaxTemps == 2
MaxSlotFree == 2

SlotNames == {"x", "y"}

\* a compiler whose root scope has declared n variables, named by their number
SlotCompiler(n) ==
    [Compiler_new EXCEPT
        !.variables = [s \in 0..(VAR_SLOTS - 1) |-> s < n],
        !.scopes[1].variables = {<<ToString(k), k>> : k \in 0..(n - 1)}]

\* an empty arena, and arenas with at most MaxSlotFree free slots
SlotCompilers ==
    {SlotCompiler(0)} \cup {SlotCompiler(VAR_SLOTS - k) : k \in 0..MaxSlotFree}

\* `before` is the compiler before the last operation, `input` the operation,
\* `output` its result and the temporaries claimed and not yet released
InitSlots ==
    /\ overflow_checks = FALSE
    /\ task = "slots"
    /\ phase = "input"
    /\ compiler \in SlotCompilers
    /\ before = compiler
    /\ input = [op |-> "none", symbol |-> "", index |-> 0]
    /\ output = [v |-> 0, temps |-> {}]
    /\ ast = <<>>
    /\ next_stmt = 1
    /\ instructions = <<>>
    /\ i = 0
    /\ changes = FALSE
    /\ passes = 0
    /\ machine = Machine_new

SlotStep(op, symbol, index, c, v, temps) ==
    /\ task = "slots" /\ Ok(compiler) /\ i < MaxSlotOps
    /\ i' = i + 1
    /\ before' = compiler
    /\ input' = [op |-> op, symbol |-> symbol, index |-> index]
    /\ compiler' = c
    /\ output' = [v |-> v, temps |-> temps]
    /\ UNCHANGED <<overflow_checks, task, ast, next_stmt, phase, instructions, changes,
                   passes, machine>>

InsertVar ==
    /\ Len(compiler.scopes) >= 1
    /\ \E symbol \in SlotNames :
          SlotStep("insert_var", symbol, 0, insert_var(compiler, symbol).c,
                   insert_var(compiler, symbol).v, output.temps)

InsertTempVar ==
    /\ Cardinality(output.temps) < MaxTemps
    /\ LET r == insert_temp_var(compiler)
       IN SlotStep("insert_temp_var", "", 0, r.c, r.v,
                   IF Ok(r.c) THEN output.temps \cup {r.v} ELSE output.temps)

CleanupTempVar ==
    \E index \in output.temps :
        SlotStep("cleanup_temp_var", "", index, cleanup_temp_var(compiler, index), 0,
                 output.temps \ {index})

\* push_scope up to the evaluation of the body
EnterScope ==
    /\ Len(compiler.scopes) < MaxDepth
    /\ SlotStep("push_scope", "", 0,
                [compiler EXCEPT !.scopes =
                    Append(@, Scope_with_state(last_scope(compiler).state))],
                0, output.temps)

PopScope ==
    /\ Len(compiler.scopes) > 1
    /\ SlotStep("pop_scope", "", 0, pop_scope(compiler), 0, output.temps)

NextSlots == InsertVar \/ InsertTempVar \/ CleanupTempVar \/ EnterScope \/ PopScope

SpecSlots == InitSlots /\ [][NextSlots]_vars

After(op) == task = "slots" /\ input.op = op

LowestFree(c) == CHOOSE s \in FreeSlots(c) : \A t \in FreeSlots(c) : s <= t

Claimed(c, slot) == [c.variables EXCEPT ![slot] = TRUE]

\* C26: declaring a name visible in some scope returns its slot and changes
\* nothing; declaring a new name claims the lowest free slot and records it in the
\* innermost scope; with the arena full, declaring a new name or claiming a
\* temporary fails with TooManyVars and changes neither the arena nor a scope.
C26_Declare ==
    /\ After("insert_var") =>
          LET known == get_var_noerror(before, input.symbol)
              n == Len(before.scopes)
          IN IF known.found
             THEN output.v = known.v /\ compiler = before
             ELSE IF FreeSlots(before) # {}
             THEN /\ Ok(compiler)
                  /\ output.v = LowestFree(before)
                  /\ compiler.variables = Claimed(before, output.v)
                  /\ compiler.scopes =
                        [before.scopes EXCEPT ![n].variables = @ \cup {<<input.symbol, output.v>>}]
             ELSE /\ compiler.err.typ = "TooManyVars"
                  /\ compiler.variables = before.variables
                  /\ compiler.scopes = before.scopes
    /\ After("insert_temp_var") =>
          IF FreeSlots(before) # {}
          THEN /\ Ok(compiler)
               /\ output.v = LowestFree(before)
               /\ compiler.variables = Claimed(before, output.v)
               /\ compiler.scopes = before.scopes
          ELSE /\ compiler.err.typ = "TooManyVars"
               /\ compiler.variables = before.variables
               /\ compiler.scopes = before.scopes

\* a declaration in a nested scope failed on a full arena
C26_FullArenaRejected ==
    /\ After("insert_var")
    /\ compiler.err.typ = "TooManyVars"
    /\ Len(compiler.scopes) > 1

\* the names visible in the scope stack, with their slots
Visible(c) == UNION {c.scopes[k].variables : k \in 1..Len(c.scopes)}

\* C27: every visible name has an occupied slot, two visible names never share a
\* slot, a claimed temporary never has the slot of a visible variable, and leaving
\* a scope frees exactly the slots of the variables that scope declared.
C27_SlotsDisjoint ==
    task = "slots" =>
        /\ \A p \in Visible(compiler) : compiler.variables[p[2]]
        /\ \A p \in Visible(compiler) : \A q \in Visible(compiler) :
              p[2] = q[2] => p[1] = q[1]
        /\ \A t \in output.temps :
              compiler.variables[t] /\ \A p \in Visible(compiler) : p[2] # t
        /\ After("pop_scope") =>
              LET left == before.scopes[Len(before.scopes)].variables
              IN \A s \in 0..(VAR_SLOTS - 1) :
                    compiler.variables[s] =
                        (before.variables[s] /\ s \notin {p[2] : p \in left})

\* a scope that declared a variable was left while a temporary was claimed
C27_ScopeLeftWithTemporary ==
    /\ After("pop_scope")
    /\ before.scopes[Len(before.scopes)].variables # {}
    /\ output.temps # {}
-----------------------------------------------------------------------------
(* Marks that point at a jump which is promoted to a far jump *)

MaxFarBody == 62

\* body lengths that keep the chain on page 0 and that carry its end to page 1
FarBodySizes == {0, 1} \cup ((MaxFarBody - 4)..MaxFarBody)

\* the elif repeats the comparison, whose operands are then in A and B already and
\* whose jump is the first instruction after the first body, or compares with 2
FarConditions ==
    {UseCondition, EqExpr(Identifier("x"), "EqualTo", NumericLiteral(2))}

\* x = 0; if x == 1 <n1 debug> elif <condition> <n2 debug> end
FarPrograms ==
    {<<Assignment("x", NumericLiteral(0)),
       Conditional(UseCondition, Fill(n1), <<<<cond, Fill(n2)>>>>, <<>>)>> :
        n1 \in 0..1, n2 \in FarBodySizes, cond \in FarConditions}

InitFar == InitCompile(FarPrograms)

NextFar == EvalStatement \/ GetInstructions \/ DiscJump \/ DiscPassEnd \/ ReplaceJumpMarks

SpecFar == InitFar /\ [][NextFar]_vars

\* C28: in the final output no jump's resolved target is the index of a far jump.
C28_NoJumpOntoFarJump ==
    (task = "compile" /\ phase = "done") =>
        \A k \in 1..Len(instructions) :
            (is_jump(instructions[k].variant) /\ instructions[k].arg < Len(instructions))
                => ~disc_jump(instructions[instructions[k].arg + 1].variant)
-----------------------------------------------------------------------------
(* Symbolic execution of the shifts *)

MaxShift == 3

ShiftContents == {Unknown, Variable(0)} \cup {Number(v) : v \in 0..MaxShift}

\* SUP k / SDN k on a state whose A is a known number
ShiftInputs ==
    [instr : {Instruction_new(v, k) : v \in {"SUP", "SDN"}, k \in 0..MaxShift},
     on : {[ComputerState EXCEPT !.a = Number(a), !.b = b] :
              a \in (-MaxShift)..MaxShift, b \in ShiftContents}]

InitShift == InitPure("execute", ShiftInputs, {Compiler_new})

ExecuteShift ==
    /\ task = "execute" /\ phase = "input"
    /\ output' = execute(input.instr, input.on)
    /\ phase' = "output"
    /\ UNCHANGED <<overflow_checks, task, ast, next_stmt, compiler, instructions, i, changes,
                   passes, before, machine, input>>

NextShift == ExecuteShift

SpecShift == InitShift /\ [][NextShift]_vars

\* C29: after SUP k or SDN k on a tracked A = Number(a), the tracked A is Unknown
\* or Number(a shifted up or down by k bits), whatever is tracked of B.
C29_ShiftByArgument ==
    (task = "execute" /\ phase = "output" /\ ~output.panic) =>
        \/ output.a = Unknown
        \/ output.a = Number(ShiftI16(input.instr.variant = "SUP", input.on.a.v,
                                      input.instr.arg).v)
-----------------------------------------------------------------------------
(* The page-selector pass on arbitrary instruction lists and mark tables *)

MaxPassJumps == 2
MaxPassTail == 1

\* the start of the list and the two sides of the boundary of pages 0 and 1
PassPositions == {0, PAGE - 1, PAGE}

\* 255 is the largest mark a u8 holds
PassMarkValues == PassPositions \cup {255}

\* a list of NON with near jumps at the chosen indices
PassList(len, jumps) ==
    [k \in 1..len |->
        IF \E j \in jumps : j[1] = k - 1
        THEN LET j == CHOOSE j \in jumps : j[1] = k - 1
             IN Instruction_new(j[2], j[3])
        ELSE Instruction_new("NON", NoArg)]

\* at most MaxPassJumps jumps <<index, opcode, mark>>, no two at one index
PassJumpSets ==
    {js \in SUBSET (PassPositions \X {"JE"} \X (0..(MaxPassJumps - 1))) :
        /\ Cardinality(js) <= MaxPassJumps
        /\ \A p \in js : \A q \in js : p[1] = q[1] => p = q}

PassLists ==
    {PassList(PAGE + 1 + tail, js) : tail \in 0..MaxPassTail, js \in PassJumpSets}

PassMarkTables == [1..MaxPassJumps -> PassMarkValues]

\* insert_disc_jumps is entered with a list and a mark table; `input` keeps the list
InitPass ==
    /\ overflow_checks \in BOOLEAN
    /\ task = "compile"
    /\ phase = "disc"
    /\ instructions \in PassLists
    /\ input = instructions
    /\ \E marks \in PassMarkTables : compiler = [Compiler_new EXCEPT !.jump_marks = marks]
    /\ i = 0
    /\ changes = FALSE
    /\ passes = 0
    /\ ast = <<>>
    /\ next_stmt = 1
    /\ output = <<>>
    /\ before = Snapshot(Compiler_new)
    /\ machine = Machine_new

NextPass == DiscJump \/ DiscPassEnd

SpecPass == InitPass /\ [][NextPass]_vars

NearJumpsOf(list) ==
    {k \in 1..Len(list) : is_jump(list[k].variant) /\ ~disc_jump(list[k].variant)}

FarJumpsOf(list) == {k \in 1..Len(list) : disc_jump(list[k].variant)}

SelectorsOf(list) == {k \in 1..Len(list) : list[k].variant = "LCL"}

\* C30: during and after the pass every promoted jump has exactly one LCL, which
\* stands in front of it, and no jump is lost or added; the number of passes is at
\* most the number of near jumps of the list plus one; when the pass has stopped,
\* every jump that is still near has its target on its own page.
C30_PassBounded ==
    (task = "compile" /\ phase \in {"disc", "replace"} /\ ast = <<>>) =>
        /\ Cardinality(FarJumpsOf(instructions)) = Cardinality(SelectorsOf(instructions))
        /\ \A k \in FarJumpsOf(instructions) : k > 1 /\ instructions[k - 1].variant = "LCL"
        /\ Cardinality(NearJumpsOf(instructions)) + Cardinality(FarJumpsOf(instructions))
              = Cardinality(NearJumpsOf(input))
        /\ Len(instructions) = Len(input) + Cardinality(FarJumpsOf(instructions))
        /\ passes <= Cardinality(NearJumpsOf(input)) + 1
        /\ phase = "replace" =>
              \A k \in NearJumpsOf(instructions) :
                  page(k - 1) = page(compiler.jump_marks[instructions[k].arg + 1])

\* the pass stopped after promoting two jumps in two different passes
C30_StoppedAfterThreePasses ==
    /\ task = "compile" /\ phase = "replace" /\ ast = <<>>
    /\ passes = 3
    /\ Cardinality(FarJumpsOf(instructions)) = 2

====
